---------------------------- MODULE Spec2Model ----------------------------
(***************************************************************************)
(* A model of browsepy's cache module (src/browsepy/cache.py).             *)
(*                                                                         *)
(* SafeSimpleCache keeps a dict (key -> link) whose links are Python lists *)
(* [prev, next, key, value, expire] meant to form a circular doubly linked *)
(* list.  The links live in a heap addressed by identifiers, so that the   *)
(* aliasing of the Python lists is kept.  Every public method is one       *)
(* action; a Python exception ends the method where it is raised and       *)
(* keeps the writes made before it.                                        *)
(***************************************************************************)
EXTENDS Integers, Sequences, FiniteSets, TLC

(***************************************************************************)
(* Bounds of the model.                                                    *)
(***************************************************************************)
MaxSize == 2
MaxTime == 1
MaxBatch == 2
MaxThreads == 2
MaxBackends == 2
MaxCalls == 3
MaxMultiCalls == 3
MaxHandlers == 3
MaxFires == 2
MaxArgs == 1
MaxPieces == 3
MaxToken == 2

(***************************************************************************)
(* Python values: a class tag and a payload.                               *)
(***************************************************************************)
None == [t |-> "NoneType", v |-> 0]
NOT_FOUND == [t |-> "object", v |-> 0]
True == [t |-> "bool", v |-> 1]
False == [t |-> "bool", v |-> 0]
PyInt(n) == [t |-> "int", v |-> n]
PyBool(b) == IF b THEN True ELSE False

KeyOrder == <<"k0", "k1", "k2">>
Keys == {KeyOrder[i] : i \in DOMAIN KeyOrder}
NoKey == "None"
Values == {None, PyInt(1)}
Timeouts == {None, PyInt(0)}
Deltas == {1}

(* Exceptions a method can end with; NoExc is a normal return. *)
NoExc == "none"
TypeError == "TypeError"
AttributeError == "AttributeError"

(* A reference that is None, and the reference to the NOT_FOUND object. *)
NoLink == 0
NotFoundRef == -1

VARIABLES
    cache,            \* self._cache: key -> link reference
    heap,             \* the link lists: reference -> [prev, next, key, value, expire]
    full,             \* self._full
    lru_key,          \* self._lru_key
    maxsize,          \* self._maxsize
    default_timeout,  \* self._default_timeout
    now,              \* what self.time_func() returns
    last,             \* the last public call, its arguments and its outcome
    written,          \* the caller's latest set(key, value, timeout), while it stands
    recent,           \* the keys given to set/set_many, by their latest such call
    phase,            \* which kinds of calls the caller has made so far
    lock,             \* self._lock: the thread that holds it, or NoThread
    pc,               \* where each thread is in the method it is calling
    backends,         \* MultiCache.backends: the list of wrapped caches
    python,           \* the major version of the interpreter: 2 or 3
    mcall,            \* the last call of a MultiCache method and its outcome
    hits,             \* MemoizeManager._hits
    misses,           \* MemoizeManager._misses
    memo_cache,       \* MemoizeManager._cache: the cache the manager is given
    fnc_calls,        \* how often the memoized function has run, by key
    rcall,            \* the last call of a MemoizeManager method and its outcome
    event,            \* an Event: the list of its handlers
    queue,            \* Event._queue: the arguments of the calls not yet dispatched
    event_lock,       \* Event._lock: the thread that holds it, or NoThread
    stack,            \* each thread's calls of the Event in progress, innermost last
    fired,            \* the calls of the Event so far, in the order they were queued
    trace,            \* the calls of handlers so far: [x, i] is event[i](x)
    raised,           \* the exceptions that calls of the Event have raised
    kin,              \* the arguments of two calls of make_key
    kout,             \* the keys the two calls return, and their hashes
    context,          \* a compress context: its attributes
    stream,           \* the template's tokens not yet fed to the context
    emitted,          \* what the context has yielded so far, concatenated
    source,           \* the whole template, as it was before any feed
    failed            \* the exception feed has raised, or NoExc

thread_vars == <<lock, pc>>
multi_vars == <<backends, python, mcall>>
memo_vars == <<hits, misses, memo_cache, fnc_calls, rcall>>
caller_vars == <<last, written, recent, phase>>
event_vars == <<event, queue, event_lock, stack, fired, trace, raised>>
key_vars == <<kin, kout>>
compress_vars == <<context, stream, emitted, source, failed>>
ext_vars == <<event_vars, key_vars, compress_vars>>
other_vars == <<thread_vars, multi_vars, memo_vars, ext_vars>>

store_vars == <<cache, heap, full, lru_key>>
vars == <<cache, heap, full, lru_key, maxsize, default_timeout, now, last,
          written, recent, phase>>

(* The mutable part of a store, passed through the private methods. *)
Store == [cache |-> cache, heap |-> heap, full |-> full, lru_key |-> lru_key]

(* len(self._cache) *)
size == Cardinality(DOMAIN cache)

(* The outcome of a private method: the store it leaves, the exception it  *)
(* raised, the value it returned and, for the list helpers, the link.      *)
Ret(s, v, l) == [s |-> s, exc |-> NoExc, ret |-> v, link |-> l]
Raise(s, e) == [s |-> s, exc |-> e, ret |-> None, link |-> NoLink]

(* dict.get(key) on self._cache: the link, or None. *)
CacheGet(s, key) == IF key \in DOMAIN s.cache THEN s.cache[key] ELSE NoLink

(* A reference no link of the heap uses: where a new list is allocated. *)
Alloc(h) == CHOOSE i \in 1..(Cardinality(DOMAIN h) + 1) : i \notin DOMAIN h

(* A function with one more (or one replaced) entry, or one fewer. *)
Put(f, k, v) == [x \in DOMAIN f \cup {k} |-> IF x = k THEN v ELSE f[x]]
Drop(f, k) == [x \in DOMAIN f \ {k} |-> f[x]]

(* The links reachable from the dict: what Python's collector keeps. *)
RECURSIVE Reach(_, _)
Reach(h, seen) ==
    LET more == {h[i].prev : i \in seen} \cup {h[i].next : i \in seen}
        new == (more \cap DOMAIN h) \ seen
    IN IF new = {} THEN seen ELSE Reach(h, seen \cup new)

Collect(s) ==
    LET roots == {s.cache[k] : k \in DOMAIN s.cache} \cap DOMAIN s.heap
        live == Reach(s.heap, roots)
    IN [s EXCEPT !.heap = [i \in live |-> s.heap[i]]]


(***************************************************************************)
(* The private methods of SafeSimpleCache.                                 *)
(***************************************************************************)

(* _extract(link): take the link out of the circular list.  Subscripting   *)
(* the NOT_FOUND object, or None, raises TypeError.                        *)
extract(s, l) ==
    IF l \notin DOMAIN s.heap THEN Raise(s, TypeError)
    ELSE LET prev == s.heap[l].prev
             next == s.heap[l].next
         IN IF prev \notin DOMAIN s.heap THEN Raise(s, TypeError)
            ELSE LET h1 == [s.heap EXCEPT ![prev].next = next]
                 IN IF next \notin DOMAIN h1
                    THEN Raise([s EXCEPT !.heap = h1], TypeError)
                    ELSE Ret([s EXCEPT !.heap = [h1 EXCEPT ![next].prev = prev]],
                             None, l)

(* _insert(link): link the list in before the entry of _lru_key, or before *)
(* itself when the dict is empty.                                          *)
insert(s, l) ==
    LET next == IF DOMAIN s.cache # {} THEN CacheGet(s, s.lru_key) ELSE l
    IN IF next \notin DOMAIN s.heap THEN Raise(s, TypeError)
       ELSE LET prev == s.heap[next].prev
                h1 == [s.heap EXCEPT ![l].prev = prev, ![l].next = next]
            IN IF prev \notin DOMAIN h1
               THEN Raise([s EXCEPT !.heap = h1], TypeError)
               ELSE LET h2 == [h1 EXCEPT ![prev].next = l]
                        h3 == [h2 EXCEPT ![next].prev = l]
                    IN Ret([s EXCEPT !.heap = h3], None, l)

(* _shift(pop): reads self._older_key, an attribute no code sets, before   *)
(* it touches the dict: AttributeError on both branches.                   *)
shift(s, pop) == Raise(s, AttributeError)

(* _bump(link) *)
bump(s, l) ==
    IF s.heap[l].key = s.lru_key THEN shift(s, FALSE)
    ELSE IF s.heap[l].next \notin DOMAIN s.heap THEN Raise(s, TypeError)
    ELSE IF s.heap[s.heap[l].next].key = s.lru_key THEN Ret(s, None, l)
    ELSE LET e == extract(s, l)
         IN IF e.exc # NoExc THEN e ELSE insert(e.s, e.link)

(* A _getitem that answers a missing key with the NOT_FOUND object, not    *)
(* with the default it is given.                                           *)
getitem_sentinel(s, key, default) ==
    LET link == CacheGet(s, key)
    IN IF link # NoLink /\ s.heap[link].expire < now
       THEN LET b == bump(s, link)
            IN IF b.exc # NoExc THEN b
               ELSE Ret(b.s, b.s.heap[link].value, link)
       ELSE Ret(s, NOT_FOUND, NoLink)

(* A _getitem that enters the default under a key it does not find, as     *)
(* dict.setdefault would.                                                  *)
getitem_setdefault(s, key, default) ==
    LET link == CacheGet(s, key)
    IN IF link # NoLink /\ s.heap[link].expire < now
       THEN LET b == bump(s, link)
            IN IF b.exc # NoExc THEN b
               ELSE Ret(b.s, b.s.heap[link].value, link)
       ELSE IF link # NoLink THEN Ret(s, default, NoLink)
       ELSE LET l == Alloc(s.heap)
                fresh == [prev |-> l, next |-> l, key |-> key,
                          value |-> default, expire |-> 0]
            IN Ret([s EXCEPT !.heap = Put(s.heap, l, fresh),
                             !.cache = Put(s.cache, key, l)],
                   default, NoLink)

(* _getitem(key, default): the value is returned, and the link bumped,     *)
(* when link[EXPIRE] < time_func().                                        *)
getitem(s, key, default) ==
    LET link == CacheGet(s, key)
    IN IF link # NoLink /\ s.heap[link].expire < now
       THEN LET b == bump(s, link)
            IN IF b.exc # NoExc THEN b
               ELSE Ret(b.s, b.s.heap[link].value, link)
       ELSE Ret(s, default, NoLink)

(* time_func() + (default_timeout if timeout is None else timeout) *)
ExpireAt(timeout) ==
    now + (IF timeout = None THEN default_timeout ELSE timeout.v)

(* A _setitem without the branch for a full store, which enters a new key  *)
(* in the dict as it is.                                                   *)
setitem_unbounded(s, key, value, timeout) ==
    LET expire == ExpireAt(timeout)
        link == CacheGet(s, key)
    IN IF link # NoLink
       THEN Ret([s EXCEPT !.heap[link].value = value,
                          !.heap[link].expire = expire],
                value, link)
       ELSE LET l == Alloc(s.heap)
                fresh == [prev |-> l, next |-> l, key |-> key,
                          value |-> value, expire |-> expire]
                c == Put(s.cache, key, l)
            IN Ret([s EXCEPT !.heap = Put(s.heap, l, fresh), !.cache = c,
                             !.full = (Cardinality(DOMAIN c) >= maxsize)],
                   value, l)

(* _setitem(key, value, timeout) *)
setitem(s, key, value, timeout) ==
    LET expire == ExpireAt(timeout)
        link == CacheGet(s, key)
    IN IF link # NoLink
       THEN LET b == bump(s, link)
            IN IF b.exc # NoExc THEN b
               ELSE Ret([b.s EXCEPT !.heap[b.link].value = value,
                                    !.heap[b.link].expire = expire],
                        value, b.link)
       ELSE IF s.full
       THEN LET sh == shift(s, TRUE)
            IN IF sh.exc # NoExc THEN sh
               ELSE LET old == sh.s.heap[sh.link].key
                        h == [sh.s.heap EXCEPT ![sh.link].key = key,
                                               ![sh.link].value = value,
                                               ![sh.link].expire = expire]
                    IN Ret([sh.s EXCEPT !.heap = h,
                                        !.cache = Put(sh.s.cache, key, sh.link)],
                           value, sh.link)
       ELSE LET l == Alloc(s.heap)
                fresh == [prev |-> NoLink, next |-> NoLink, key |-> key,
                          value |-> value, expire |-> expire]
                i == insert([s EXCEPT !.heap = Put(s.heap, l, fresh)], l)
            IN IF i.exc # NoExc THEN i
               ELSE LET c == Put(i.s.cache, key, l)
                    IN Ret([i.s EXCEPT !.cache = c,
                                       !.full = (Cardinality(DOMAIN c) >= maxsize)],
                           value, l)

(* _popitem(key): dict.pop(key, NOT_FOUND), then _extract of what it gave. *)
popitem(s, key) ==
    IF key \in DOMAIN s.cache
    THEN LET link == s.cache[key]
             e == extract([s EXCEPT !.cache = Drop(s.cache, key)], link)
         IN IF e.exc # NoExc THEN e
            ELSE Ret(e.s, e.s.heap[link].value, link)
    ELSE extract(s, NotFoundRef)


(***************************************************************************)
(* What the model keeps about the caller: the last call, and the history   *)
(* the statements about sequences of calls are made of.                    *)
(***************************************************************************)
NoWrite == [set |-> FALSE, key |-> NoKey, value |-> None, expire |-> 0]
Write(key, value, timeout) ==
    [set |-> TRUE, key |-> key, value |-> value, expire |-> ExpireAt(timeout)]

(* The record of a public call: its key or keys, the store as the call     *)
(* found it (pre) and the time of the call (at), and how it ended: the     *)
(* exception, or the value, list (rets) or dict (retd) returned.           *)
Call(op, key, keys, exc, ret, rets, retd) ==
    [op |-> op, key |-> key, keys |-> keys, pre |-> Store, at |-> now,
     exc |-> exc, ret |-> ret, rets |-> rets, retd |-> retd]

(* The call of a method with one key, and of one with several. *)
Call1(op, key, r) == Call(op, key, <<>>, r.exc, r.ret, <<>>, <<>>)
CallN(op, keys, exc, ret, rets, retd) ==
    Call(op, NoKey, keys, exc, ret, rets, retd)

(* The store a method leaves behind; unreferenced lists are collected. *)
Commit(s) ==
    LET c == Collect(s)
    IN /\ cache' = c.cache
       /\ heap' = c.heap
       /\ full' = c.full
       /\ lru_key' = c.lru_key

Range(seq) == {seq[i] : i \in DOMAIN seq}

(* seq without the key k, and seq with k moved to (or put at) its end. *)
Without(seq, k) == SelectSeq(seq, LAMBDA x : x # k)
Touch(seq, k) == Append(Without(seq, k), k)

RECURSIVE TouchAll(_, _)
TouchAll(seq, ks) ==
    IF ks = <<>> THEN seq ELSE TouchAll(Touch(seq, Head(ks)), Tail(ks))

(* The caller's latest set stands until the caller deletes its key or      *)
(* writes it by another method, or the store evicts it (the keys gone).    *)
Forget(w, gone) == IF w.key \in gone THEN NoWrite ELSE w
Evicted(s) == DOMAIN cache \ DOMAIN s.cache

(* The kinds of calls made so far: only set/set_many ("set"), those and    *)
(* get/get_many/get_dict ("setget"), or others too ("any").                *)
PhaseAfter(op) ==
    IF op \in {"set", "set_many"} THEN phase
    ELSE IF op \in {"get", "get_many", "get_dict"}
    THEN (IF phase = "set" THEN "setget" ELSE phase)
    ELSE "any"

(* The batches of at most n different keys, each in the order of KeyOrder. *)
KeySeqs(n) ==
    {SelectSeq(KeyOrder, LAMBDA k : k \in S) :
        S \in {T \in SUBSET Keys : Cardinality(T) <= n}}


(***************************************************************************)
(* The public methods of SafeSimpleCache, as what a call does to a store s *)
(* and how it ends.  A list or a dict a method returns is a Python value   *)
(* too.                                                                    *)
(***************************************************************************)
PyList(seq) == [t |-> "list", v |-> seq]
PyDict(f) == [t |-> "dict", v |-> f]

SafeSimpleCache_add(s, key, value, timeout) ==
    IF key \in DOMAIN s.cache THEN Ret(s, False, NoLink)
    ELSE LET w == setitem(s, key, value, timeout)
         IN IF w.exc # NoExc THEN w ELSE Ret(w.s, True, NoLink)

SafeSimpleCache_set(s, key, value, timeout) ==
    LET w == setitem(s, key, value, timeout)
    IN IF w.exc # NoExc THEN w ELSE Ret(w.s, True, NoLink)

(* for key, value in mapping.items(): self._setitem(key, value, timeout) *)
RECURSIVE set_many_loop(_, _, _, _)
set_many_loop(s, ks, vs, timeout) ==
    IF ks = <<>> THEN Ret(s, True, NoLink)
    ELSE LET w == setitem(s, Head(ks), Head(vs), timeout)
         IN IF w.exc # NoExc THEN w
            ELSE set_many_loop(w.s, Tail(ks), Tail(vs), timeout)

SafeSimpleCache_set_many(s, ks, vs, timeout) == set_many_loop(s, ks, vs, timeout)

(* self._setitem(key, self._cache.get(key, 0) + delta): what the dict      *)
(* holds for a key is its link, a list, and list + int raises TypeError.   *)
SafeSimpleCache_inc(s, key, delta) ==
    IF key \in DOMAIN s.cache THEN Raise(s, TypeError)
    ELSE setitem(s, key, PyInt(0 + delta), None)

(* return self.inc(key, delta=-delta) *)
SafeSimpleCache_dec(s, key, delta) == SafeSimpleCache_inc(s, key, -delta)

(* return self._popitem(key) is not NOT_FOUND *)
SafeSimpleCache_delete(s, key) ==
    LET p == popitem(s, key)
    IN IF p.exc # NoExc THEN p
       ELSE Ret(p.s, PyBool(p.ret # NOT_FOUND), NoLink)

(* [self._popitem(key) for key in keys] *)
RECURSIVE popitems(_, _, _)
popitems(s, ks, got) ==
    IF ks = <<>> THEN [s |-> s, exc |-> NoExc, rets |-> got]
    ELSE LET p == popitem(s, Head(ks))
         IN IF p.exc # NoExc THEN [s |-> p.s, exc |-> p.exc, rets |-> got]
            ELSE popitems(p.s, Tail(ks), Append(got, p.ret))

(* return NOT_FOUND not in [...] *)
SafeSimpleCache_delete_many(s, ks) ==
    LET p == popitems(s, ks, <<>>)
    IN IF p.exc # NoExc THEN Raise(p.s, p.exc)
       ELSE Ret(p.s, PyBool(NOT_FOUND \notin Range(p.rets)), NoLink)

(* return self._getitem(key, None) *)
SafeSimpleCache_get(s, key) == getitem(s, key, None)

(* self._getitem(key, None) for key in keys *)
RECURSIVE getitems(_, _, _)
getitems(s, ks, got) ==
    IF ks = <<>> THEN [s |-> s, exc |-> NoExc, rets |-> got]
    ELSE LET g == getitem(s, Head(ks), None)
         IN IF g.exc # NoExc THEN [s |-> g.s, exc |-> g.exc, rets |-> got]
            ELSE getitems(g.s, Tail(ks), Append(got, g.ret))

(* The dict {key: value for ...}: a later value of a key replaces an       *)
(* earlier one.                                                            *)
AsDict(ks, vs) ==
    [k \in Range(ks) |->
        vs[CHOOSE i \in DOMAIN ks :
              ks[i] = k /\ \A j \in DOMAIN ks : ks[j] = k => j <= i]]

SafeSimpleCache_get_dict(s, ks) ==
    LET g == getitems(s, ks, <<>>)
    IN IF g.exc # NoExc THEN Raise(g.s, g.exc)
       ELSE Ret(g.s, PyDict(AsDict(ks, g.rets)), NoLink)

SafeSimpleCache_get_many(s, ks) ==
    LET g == getitems(s, ks, <<>>)
    IN IF g.exc # NoExc THEN Raise(g.s, g.exc)
       ELSE Ret(g.s, PyList(g.rets), NoLink)

(* return key in self._cache *)
SafeSimpleCache_has(s, key) == Ret(s, PyBool(key \in DOMAIN s.cache), NoLink)

(* self._cache.clear(); self._full = False: _lru_key is left as it is. *)
SafeSimpleCache_clear(s) ==
    Ret([s EXCEPT !.cache = <<>>, !.full = FALSE], True, NoLink)


(***************************************************************************)
(* The calls of one caller on one store.  Each method takes self._lock for *)
(* its whole body (has takes none) and is one step here.                   *)
(***************************************************************************)

(* What every method leaves alone, and the history after a call of op that *)
(* forgets the writes of the keys gone and touches the keys set.           *)
Frame(op, gone, ks) ==
    /\ written' = Forget(written, gone)
    /\ phase' = PhaseAfter(op)
    /\ recent' = IF PhaseAfter(op) = "any" THEN <<>> ELSE TouchAll(recent, ks)
    /\ UNCHANGED <<maxsize, default_timeout, now>>
    /\ UNCHANGED other_vars

add(key, value, timeout) ==
    LET r == SafeSimpleCache_add(Store, key, value, timeout)
    IN /\ Commit(r.s)
       /\ last' = Call1("add", key, r)
       /\ Frame("add", {key} \cup Evicted(r.s), <<>>)

set(key, value, timeout) ==
    LET r == SafeSimpleCache_set(Store, key, value, timeout)
    IN /\ Commit(r.s)
       /\ last' = Call1("set", key, r)
       /\ written' = Write(key, value, timeout)
       /\ phase' = PhaseAfter("set")
       /\ recent' = IF phase = "any" THEN <<>> ELSE Touch(recent, key)
       /\ UNCHANGED <<maxsize, default_timeout, now>>
       /\ UNCHANGED other_vars

set_many(ks, vs, timeout) ==
    LET r == SafeSimpleCache_set_many(Store, ks, vs, timeout)
    IN /\ Commit(r.s)
       /\ last' = CallN("set_many", ks, r.exc, r.ret, <<>>, <<>>)
       /\ written' = IF ks = <<>> THEN written
                     ELSE Write(ks[Len(ks)], vs[Len(vs)], timeout)
       /\ phase' = PhaseAfter("set_many")
       /\ recent' = IF phase = "any" THEN <<>> ELSE TouchAll(recent, ks)
       /\ UNCHANGED <<maxsize, default_timeout, now>>
       /\ UNCHANGED other_vars

inc(key, delta) ==
    LET r == SafeSimpleCache_inc(Store, key, delta)
    IN /\ Commit(r.s)
       /\ last' = Call1("inc", key, r)
       /\ Frame("inc", {key} \cup Evicted(r.s), <<>>)

dec(key, delta) ==
    LET r == SafeSimpleCache_dec(Store, key, delta)
    IN /\ Commit(r.s)
       /\ last' = Call1("dec", key, r)
       /\ Frame("dec", {key} \cup Evicted(r.s), <<>>)

delete(key) ==
    LET r == SafeSimpleCache_delete(Store, key)
    IN /\ Commit(r.s)
       /\ last' = Call1("delete", key, r)
       /\ Frame("delete", {key}, <<>>)

delete_many(ks) ==
    LET r == SafeSimpleCache_delete_many(Store, ks)
    IN /\ Commit(r.s)
       /\ last' = CallN("delete_many", ks, r.exc, r.ret, <<>>, <<>>)
       /\ Frame("delete_many", Range(ks), <<>>)

get(key) ==
    LET r == SafeSimpleCache_get(Store, key)
    IN /\ Commit(r.s)
       /\ last' = Call1("get", key, r)
       /\ Frame("get", {}, <<>>)

get_dict(ks) ==
    LET r == SafeSimpleCache_get_dict(Store, ks)
        retd == IF r.exc # NoExc THEN <<>> ELSE r.ret.v
    IN /\ Commit(r.s)
       /\ last' = CallN("get_dict", ks, r.exc, None, <<>>, retd)
       /\ Frame("get_dict", {}, <<>>)

get_many(ks) ==
    LET r == SafeSimpleCache_get_many(Store, ks)
        rets == IF r.exc # NoExc THEN <<>> ELSE r.ret.v
    IN /\ Commit(r.s)
       /\ last' = CallN("get_many", ks, r.exc, None, rets, <<>>)
       /\ Frame("get_many", {}, <<>>)

has(key) ==
    /\ last' = Call1("has", key, SafeSimpleCache_has(Store, key))
    /\ Frame("has", {}, <<>>)
    /\ UNCHANGED store_vars

clear ==
    LET r == SafeSimpleCache_clear(Store)
    IN /\ Commit(r.s)
       /\ last' = Call1("clear", NoKey, r)
       /\ Frame("clear", Keys, <<>>)

(***************************************************************************)
(* The parts of the state a specification does not use, as they stay.      *)
(***************************************************************************)
Threads == 1..MaxThreads
NoThread == 0
Idle == [op |-> "none", key |-> NoKey, at |-> "idle", exc |-> NoExc,
         res |-> None, pre |-> <<>>, passed |-> FALSE, batch |-> <<>>]
NoCall == [op |-> "init", key |-> NoKey, keys |-> <<>>, pre |-> <<>>,
           arg |-> None, oks |-> <<>>, asked |-> 0, exc |-> NoExc,
           ret |-> None, n |-> 0]

NoRun == [op |-> "init", key |-> NoKey, pre |-> <<>>, exc |-> NoExc,
          ret |-> None, seq |-> TRUE, n |-> 0,
          uncalled |-> {KeyOrder[1], KeyOrder[2]}]

NoThreads ==
    /\ lock = NoThread
    /\ pc = [t \in Threads |-> Idle]

NoEvent ==
    /\ event = <<>>
    /\ queue = <<>>
    /\ event_lock = NoThread
    /\ stack = [t \in Threads |-> <<>>]
    /\ fired = <<>>
    /\ trace = <<>>
    /\ raised = <<>>

NoKeys ==
    /\ kin = <<>>
    /\ kout = <<>>

NoCompress ==
    /\ context = <<>>
    /\ stream = <<>>
    /\ emitted = <<>>
    /\ source = <<>>
    /\ failed = NoExc

NoMulti ==
    /\ backends = <<>>
    /\ python = 3
    /\ mcall = NoCall

NoMemo ==
    /\ hits = 0
    /\ misses = 0
    /\ memo_cache = [kind |-> "SafeSimpleCache", d |-> <<>>]
    /\ fnc_calls = [k \in Keys |-> 0]
    /\ rcall = NoRun

(* time.time() moves on between calls. *)
Tick ==
    /\ now < MaxTime
    /\ now' = now + 1
    /\ UNCHANGED <<cache, heap, full, lru_key, maxsize, default_timeout, last,
                   written, recent, phase>>
    /\ UNCHANGED other_vars

(* __init__(default_timeout, maxsize): an empty dict, not full, no lru key. *)
InitStore ==
    /\ cache = <<>>
    /\ heap = <<>>
    /\ full = FALSE
    /\ lru_key = NoKey
    /\ maxsize \in 1..MaxSize
    /\ default_timeout \in {1}
    /\ now = 0

(* No call has been made yet. *)
InitCaller ==
    /\ last = [op |-> "init", key |-> NoKey, keys |-> <<>>,
               pre |-> [cache |-> <<>>, heap |-> <<>>, full |-> FALSE,
                        lru_key |-> NoKey],
               at |-> 0, exc |-> NoExc, ret |-> None, rets |-> <<>>,
               retd |-> <<>>]
    /\ written = NoWrite
    /\ recent = <<>>
    /\ phase = "set"

(* One caller on one store: no other thread, no MultiCache, no manager. *)
Init ==
    /\ InitStore
    /\ InitCaller
    /\ NoThreads
    /\ NoEvent
    /\ NoKeys
    /\ NoCompress
    /\ NoMulti
    /\ NoMemo

Next ==
    \/ \E key \in Keys, value \in Values, timeout \in Timeouts :
          add(key, value, timeout)
    \/ \E key \in Keys, value \in Values, timeout \in Timeouts :
          set(key, value, timeout)
    \/ \E ks \in KeySeqs(MaxBatch), value \in Values, timeout \in Timeouts :
          set_many(ks, [i \in DOMAIN ks |-> value], timeout)
    \/ \E key \in Keys, delta \in Deltas : inc(key, delta)
    \/ \E key \in Keys, delta \in Deltas : dec(key, delta)
    \/ \E key \in Keys : delete(key)
    \/ \E ks \in KeySeqs(MaxBatch) : delete_many(ks)
    \/ \E key \in Keys : get(key)
    \/ \E ks \in KeySeqs(MaxBatch) : get_dict(ks)
    \/ \E ks \in KeySeqs(MaxBatch) : get_many(ks)
    \/ \E key \in Keys : has(key)
    \/ clear
    \/ Tick

Spec == Init /\ [][Next]_vars


(***************************************************************************)
(* Several threads on one SafeSimpleCache.  A method whose body is under   *)
(* "with self._lock:" waits for the lock, runs its body holding it and     *)
(* gives it back as the with block is left, by a return or an exception;   *)
(* has takes no lock.                                                      *)
(***************************************************************************)
LockedMethods == {"add", "set", "set_many", "inc", "dec", "delete",
                  "delete_many", "get", "get_dict", "get_many", "clear"}
PublicMethods == LockedMethods \cup {"has"}

(* The body of the method op, called with a key and a value. *)
Method(op, s, key, value) ==
    CASE op = "add" -> SafeSimpleCache_add(s, key, value, None)
      [] op = "set" -> SafeSimpleCache_set(s, key, value, None)
      [] op = "set_many" -> SafeSimpleCache_set_many(s, <<key>>, <<value>>, None)
      [] op = "inc" -> SafeSimpleCache_inc(s, key, 1)
      [] op = "dec" -> SafeSimpleCache_dec(s, key, 1)
      [] op = "delete" -> SafeSimpleCache_delete(s, key)
      [] op = "delete_many" -> SafeSimpleCache_delete_many(s, <<key>>)
      [] op = "get" -> SafeSimpleCache_get(s, key)
      [] op = "get_dict" -> SafeSimpleCache_get_dict(s, <<key>>)
      [] op = "get_many" -> SafeSimpleCache_get_many(s, <<key>>)
      [] op = "has" -> SafeSimpleCache_has(s, key)
      [] op = "clear" -> SafeSimpleCache_clear(s)

(* Thread t calls the method and comes to its body: past the acquire of    *)
(* the lock when the method takes it.                                      *)
Enter(t, op, key, value) ==
    /\ pc[t].at = "idle"
    /\ op \in LockedMethods => lock = NoThread
    /\ lock' = IF op \in LockedMethods THEN t ELSE lock
    /\ pc' = [pc EXCEPT ![t] = [Idle EXCEPT !.op = op, !.key = key,
                                            !.res = value, !.at = "body"]]
    /\ UNCHANGED <<store_vars, maxsize, default_timeout, now>>
    /\ UNCHANGED <<ext_vars, caller_vars, multi_vars, memo_vars>>

(* Thread t runs the body and leaves the method, by a return or an         *)
(* exception: the with block releases the lock.                            *)
Leave(t) ==
    /\ pc[t].at = "body"
    /\ LET r == Method(pc[t].op, Store, pc[t].key, pc[t].res)
       IN /\ Commit(r.s)
          /\ pc' = [pc EXCEPT ![t] = [Idle EXCEPT !.op = pc[t].op,
                                                  !.key = pc[t].key,
                                                  !.exc = r.exc,
                                                  !.res = r.ret]]
    /\ lock' = IF pc[t].op \in LockedMethods THEN NoThread ELSE lock
    /\ UNCHANGED <<maxsize, default_timeout, now>>
    /\ UNCHANGED <<ext_vars, caller_vars, multi_vars, memo_vars>>

NextThreads ==
    \/ \E t \in Threads, op \in PublicMethods, key \in Keys, value \in Values :
          Enter(t, op, key, value)
    \/ \E t \in Threads : Leave(t)

all_vars == <<vars, other_vars>>

SpecThreads == Init /\ [][NextThreads]_all_vars

(***************************************************************************)
(* The methods that take several keys, one key at a time: the lock is      *)
(* taken as the with block is entered, the private method is called for    *)
(* each key in turn, and the lock is given back as the block is left, by   *)
(* the return or by an exception of one of the calls.  Other threads set,  *)
(* delete and test single keys meanwhile.                                  *)
(***************************************************************************)
BatchMethods == {"set_many", "delete_many", "get_dict", "get_many"}

(* What the method does for one key. *)
Item(op, s, key, value) ==
    CASE op = "set_many" -> setitem(s, key, value, None)
      [] op = "delete_many" -> popitem(s, key)
      [] op = "get_dict" -> getitem(s, key, None)
      [] op = "get_many" -> getitem(s, key, None)

(* What the method returns once every key is done. *)
Batched(op, ks, rets) ==
    CASE op = "set_many" -> True
      [] op = "delete_many" -> PyBool(NOT_FOUND \notin Range(rets))
      [] op = "get_dict" -> PyDict(AsDict(ks, rets))
      [] op = "get_many" -> PyList(rets)

(* with self._lock: thread t has the lock and is before the first key. *)
EnterBatch(t, op, ks, value) ==
    /\ pc[t].at = "idle"
    /\ lock = NoThread
    /\ lock' = t
    /\ pc' = [pc EXCEPT ![t] = [Idle EXCEPT !.op = op, !.res = value, !.at = "batch",
                                            !.batch = [keys |-> ks, done |-> 0,
                                                       rets |-> <<>>]]]
    /\ UNCHANGED <<store_vars, maxsize, default_timeout, now>>
    /\ UNCHANGED <<ext_vars, caller_vars, multi_vars, memo_vars>>

(* The call for one key has ended as r: the next key is due, or the        *)
(* exception leaves the with block.                                        *)
Stepped(t, r) ==
    /\ Commit(r.s)
    /\ IF r.exc # NoExc
       THEN /\ lock' = NoThread
            /\ pc' = [pc EXCEPT ![t] = [Idle EXCEPT !.op = pc[t].op, !.exc = r.exc]]
       ELSE /\ lock' = lock
            /\ pc' = [pc EXCEPT ![t].batch.done = @ + 1,
                                ![t].batch.rets = Append(@, r.ret)]

(* A step that gives the lock back after each key. *)
StepBatch_unlocking(t) ==
    /\ pc[t].at = "batch"
    /\ pc[t].batch.done < Len(pc[t].batch.keys)
    /\ Commit(Item(pc[t].op, Store, pc[t].batch.keys[pc[t].batch.done + 1],
                   pc[t].res).s)
    /\ lock' = NoThread
    /\ pc' = [pc EXCEPT ![t].batch.done = @ + 1]
    /\ UNCHANGED <<maxsize, default_timeout, now>>
    /\ UNCHANGED <<ext_vars, caller_vars, multi_vars, memo_vars>>

(* The private method is called for the next key of the batch. *)
StepBatch(t) ==
    /\ pc[t].at = "batch"
    /\ pc[t].batch.done < Len(pc[t].batch.keys)
    /\ Stepped(t, Item(pc[t].op, Store, pc[t].batch.keys[pc[t].batch.done + 1],
                       pc[t].res))
    /\ UNCHANGED <<maxsize, default_timeout, now>>
    /\ UNCHANGED <<ext_vars, caller_vars, multi_vars, memo_vars>>

(* Every key is done: the method returns and the lock is given back. *)
LeaveBatch(t) ==
    /\ pc[t].at = "batch"
    /\ pc[t].batch.done = Len(pc[t].batch.keys)
    /\ lock' = NoThread
    /\ pc' = [pc EXCEPT ![t] =
                 [Idle EXCEPT !.op = pc[t].op,
                              !.res = Batched(pc[t].op, pc[t].batch.keys,
                                              pc[t].batch.rets)]]
    /\ UNCHANGED <<store_vars, maxsize, default_timeout, now>>
    /\ UNCHANGED <<ext_vars, caller_vars, multi_vars, memo_vars>>

NextBatch ==
    \/ \E t \in Threads, op \in {"set", "delete", "has"}, key \in Keys :
          Enter(t, op, key, PyInt(1))
    \/ \E t \in Threads : Leave(t)
    \/ \E t \in Threads, op \in BatchMethods, ks \in KeySeqs(MaxBatch) :
          EnterBatch(t, op, ks, PyInt(1))
    \/ \E t \in Threads : StepBatch(t)
    \/ \E t \in Threads : LeaveBatch(t)

SpecBatch == Init /\ [][NextBatch]_all_vars


(***************************************************************************)
(* MultiCache over a list of backends.  A backend is a SafeSimpleCache, or *)
(* another cache with the methods of werkzeug's BaseCache, which is a dict *)
(* here: get gives None for a key it does not hold, set gives False when   *)
(* the write fails, inc and dec take a missing value or None as 0, delete  *)
(* tells whether the key was there.                                        *)
(***************************************************************************)
ValueError == "ValueError"
EmptyStore == [cache |-> <<>>, heap |-> <<>>, full |-> FALSE, lru_key |-> NoKey]
SafeBackend == [kind |-> "SafeSimpleCache", s |-> EmptyStore, d |-> <<>>]
BaseBackend(d) == [kind |-> "BaseCache", s |-> EmptyStore, d |-> d]

(* The keys, and the batches of keys, a MultiCache is called with. *)
TierKeys == {KeyOrder[1], KeyOrder[2]}
TierSeqs == {SelectSeq(KeyOrder, LAMBDA k : k \in S) : S \in SUBSET TierKeys}

(* The outcome of a backend's method: the backend after it, and how it     *)
(* ended.                                                                  *)
Of(b, r) == [b |-> [b EXCEPT !.s = Collect(r.s)], exc |-> r.exc, ret |-> r.ret]
Gave(b, v) == [b |-> b, exc |-> NoExc, ret |-> v]

(* (self.get(key) or 0) *)
Num(b, key) ==
    IF key \in DOMAIN b.d /\ b.d[key] # None THEN b.d[key].v ELSE 0

Backend_get(b, key) ==
    IF b.kind = "SafeSimpleCache" THEN Of(b, SafeSimpleCache_get(b.s, key))
    ELSE Gave(b, IF key \in DOMAIN b.d THEN b.d[key] ELSE None)

Backend_set(b, key, value, timeout, ok) ==
    IF b.kind = "SafeSimpleCache"
    THEN Of(b, SafeSimpleCache_set(b.s, key, value, timeout))
    ELSE IF ok THEN Gave([b EXCEPT !.d = Put(b.d, key, value)], True)
    ELSE Gave(b, False)

Backend_inc(b, key, delta) ==
    IF b.kind = "SafeSimpleCache" THEN Of(b, SafeSimpleCache_inc(b.s, key, delta))
    ELSE Gave([b EXCEPT !.d = Put(b.d, key, PyInt(Num(b, key) + delta))],
              PyInt(Num(b, key) + delta))

Backend_dec(b, key, delta) ==
    IF b.kind = "SafeSimpleCache" THEN Of(b, SafeSimpleCache_dec(b.s, key, delta))
    ELSE Gave([b EXCEPT !.d = Put(b.d, key, PyInt(Num(b, key) - delta))],
              PyInt(Num(b, key) - delta))

Backend_delete(b, key) ==
    IF b.kind = "SafeSimpleCache" THEN Of(b, SafeSimpleCache_delete(b.s, key))
    ELSE IF key \in DOMAIN b.d THEN Gave([b EXCEPT !.d = Drop(b.d, key)], True)
    ELSE Gave(b, False)

Backend_get_dict(b, ks) ==
    IF b.kind = "SafeSimpleCache" THEN Of(b, SafeSimpleCache_get_dict(b.s, ks))
    ELSE Gave(b, PyDict([k \in Range(ks) |->
                            IF k \in DOMAIN b.d THEN b.d[k] ELSE None]))

(* c.<op>(key, ...) of one backend c. *)
BackendCall(b, op, key, arg, ok) ==
    CASE op = "set" -> Backend_set(b, key, arg, None, ok)
      [] op = "inc" -> Backend_inc(b, key, arg)
      [] op = "dec" -> Backend_dec(b, key, arg)
      [] op = "delete" -> Backend_delete(b, key)

(* The outcome of a MultiCache method. *)
Done(bs, exc, ret, asked) == [bs |-> bs, exc |-> exc, ret |-> ret, asked |-> asked]

(* [c.<op>(key, ...) for c in self.backends]: the list is built in full    *)
(* unless a backend raises; r is what backend i gave.  asked counts the    *)
(* backends called.                                                        *)
RECURSIVE each(_, _, _, _, _, _, _)
each_step(bs, op, key, arg, oks, i, got, r) ==
    IF r.exc # NoExc
    THEN [bs |-> [bs EXCEPT ![i] = r.b], exc |-> r.exc, rets |-> got, asked |-> i]
    ELSE each([bs EXCEPT ![i] = r.b], op, key, arg, oks, i + 1, Append(got, r.ret))

each(bs, op, key, arg, oks, i, got) ==
    IF i > Len(bs) THEN [bs |-> bs, exc |-> NoExc, rets |-> got, asked |-> i - 1]
    ELSE each_step(bs, op, key, arg, oks, i, got,
                   BackendCall(bs[i], op, key, arg, oks[i]))

(* A comprehension that stops at the first False, as all(c.set(...) for c  *)
(* in self.backends) without the brackets would.                           *)
RECURSIVE each_lazy(_, _, _, _, _, _, _)
each_lazy_step(bs, op, key, arg, oks, i, got, r) ==
    IF r.exc # NoExc
    THEN [bs |-> [bs EXCEPT ![i] = r.b], exc |-> r.exc, rets |-> got, asked |-> i]
    ELSE IF r.ret = False
    THEN [bs |-> [bs EXCEPT ![i] = r.b], exc |-> NoExc,
          rets |-> Append(got, r.ret), asked |-> i]
    ELSE each_lazy([bs EXCEPT ![i] = r.b], op, key, arg, oks, i + 1,
                   Append(got, r.ret))

each_lazy(bs, op, key, arg, oks, i, got) ==
    IF i > Len(bs) THEN [bs |-> bs, exc |-> NoExc, rets |-> got, asked |-> i - 1]
    ELSE each_lazy_step(bs, op, key, arg, oks, i, got,
                        BackendCall(bs[i], op, key, arg, oks[i]))

(* all([...]) and any([...]) of the list e of results. *)
all(e) ==
    IF e.exc # NoExc THEN Done(e.bs, e.exc, None, e.asked)
    ELSE Done(e.bs, NoExc, PyBool(\A i \in DOMAIN e.rets : e.rets[i] = True),
              e.asked)
any(e) ==
    IF e.exc # NoExc THEN Done(e.bs, e.exc, None, e.asked)
    ELSE Done(e.bs, NoExc, PyBool(\E i \in DOMAIN e.rets : e.rets[i] = True),
              e.asked)

(* A set that stops at the first backend whose write fails. *)
MultiCache_set_lazy(bs, key, value, oks) ==
    all(each_lazy(bs, "set", key, value, oks, 1, <<>>))

(* return all([c.set(key, value, timeout) for c in self.backends]) *)
MultiCache_set(bs, key, value, oks) ==
    all(each(bs, "set", key, value, oks, 1, <<>>))

(* for backend, partial in results.iteritems(): dict.iteritems is Python   *)
(* 2's; in Python 3 the attribute lookup raises before any backend is set. *)
(* A backend whose partial result is not the value is set to it.           *)
RECURSIVE sync(_, _, _, _, _)
sync_step(bs, key, value, results, i, r) ==
    IF r.exc # NoExc THEN Done([bs EXCEPT ![i] = r.b], r.exc, None, 0)
    ELSE sync([bs EXCEPT ![i] = r.b], key, value, results, i + 1)

sync(bs, key, value, results, i) ==
    IF python = 3 THEN Done(bs, AttributeError, None, 0)
    ELSE IF i > Len(bs) THEN Done(bs, NoExc, None, 0)
    ELSE IF results[i] = value THEN sync(bs, key, value, results, i + 1)
    ELSE sync_step(bs, key, value, results, i,
                   Backend_set(bs[i], key, value, None, TRUE))

(* results[max(results, key=results.get)] and the same of min. *)
Largest(rets) ==
    CHOOSE v \in Range(rets) : \A w \in Range(rets) : w.v <= v.v
Smallest(rets) ==
    CHOOSE v \in Range(rets) : \A w \in Range(rets) : v.v <= w.v

(* self._sync(key, value, results); return value *)
synced(y, value, asked) ==
    IF y.exc # NoExc THEN Done(y.bs, y.exc, None, asked)
    ELSE Done(y.bs, NoExc, value, asked)

(* The results e of the backends, their max (up) or min, then _sync; max() *)
(* and min() of an empty dict raise ValueError.                            *)
resolve(e, key, up) ==
    IF e.exc # NoExc THEN Done(e.bs, e.exc, None, e.asked)
    ELSE IF e.rets = <<>> THEN Done(e.bs, ValueError, None, e.asked)
    ELSE synced(sync(e.bs, key, IF up THEN Largest(e.rets) ELSE Smallest(e.rets),
                     e.rets, 1),
                IF up THEN Largest(e.rets) ELSE Smallest(e.rets), e.asked)

MultiCache_inc(bs, key, delta) ==
    resolve(each(bs, "inc", key, delta, [i \in DOMAIN bs |-> TRUE], 1, <<>>),
            key, TRUE)
MultiCache_dec(bs, key, delta) ==
    resolve(each(bs, "dec", key, delta, [i \in DOMAIN bs |-> TRUE], 1, <<>>),
            key, FALSE)

(* return any([c.delete(key) for c in self.backends]) *)
MultiCache_delete(bs, key) ==
    any(each(bs, "delete", key, None, [i \in DOMAIN bs |-> TRUE], 1, <<>>))

(* A get that takes the last backend's answer, not the first one's. *)
RECURSIVE MultiCache_get_last(_, _, _)
get_last_rest(bs, i, r, rest) ==
    IF rest.exc # NoExc \/ rest.ret # None THEN rest
    ELSE Done(rest.bs, NoExc, r.ret, rest.asked)

get_last_step(bs, key, i, r) ==
    IF r.exc # NoExc THEN Done([bs EXCEPT ![i] = r.b], r.exc, None, i)
    ELSE get_last_rest(bs, i, r,
                       MultiCache_get_last([bs EXCEPT ![i] = r.b], key, i + 1))

MultiCache_get_last(bs, key, i) ==
    IF i > Len(bs) THEN Done(bs, NoExc, None, i - 1)
    ELSE get_last_step(bs, key, i, Backend_get(bs[i], key))

(* for backend in self.backends: result = backend.get(key); the first      *)
(* result that is not None is returned.                                    *)
RECURSIVE MultiCache_get(_, _, _)
get_step(bs, key, i, r) ==
    IF r.exc # NoExc THEN Done([bs EXCEPT ![i] = r.b], r.exc, None, i)
    ELSE IF r.ret # None THEN Done([bs EXCEPT ![i] = r.b], NoExc, r.ret, i)
    ELSE MultiCache_get([bs EXCEPT ![i] = r.b], key, i + 1)

MultiCache_get(bs, key, i) ==
    IF i > Len(bs) THEN Done(bs, NoExc, None, i - 1)
    ELSE get_step(bs, key, i, Backend_get(bs[i], key))

(* The loop of _getmany: each backend is asked for the keys that remain    *)
(* and r is the partial dict it gave; "if not remaining: return" returns   *)
(* None.                                                                   *)
RECURSIVE getmany_loop(_, _, _, _)
getmany_step(bs, remaining, result, i, r) ==
    IF r.exc # NoExc THEN Done([bs EXCEPT ![i] = r.b], r.exc, None, i)
    ELSE IF remaining \ {k \in DOMAIN r.ret.v : r.ret.v[k] # None} = {}
    THEN Done([bs EXCEPT ![i] = r.b], NoExc, None, i)
    ELSE getmany_loop([bs EXCEPT ![i] = r.b],
                      remaining \ {k \in DOMAIN r.ret.v : r.ret.v[k] # None},
                      [k \in DOMAIN result |->
                          IF k \in DOMAIN r.ret.v THEN r.ret.v[k] ELSE result[k]],
                      i + 1)

getmany_loop(bs, remaining, result, i) ==
    IF i > Len(bs) THEN Done(bs, NoExc, PyDict(result), i - 1)
    ELSE getmany_step(bs, remaining, result, i,
                      Backend_get_dict(bs[i],
                         SelectSeq(KeyOrder, LAMBDA k : k \in remaining)))

getmany(bs, keys) ==
    getmany_loop(bs, Range(keys), [k \in Range(keys) |-> None], 1)

(* return self._getmany(keys) *)
MultiCache_get_dict(bs, keys) == getmany(bs, keys)

(* list(g.values()) of what _getmany gave: None has no values(). *)
values(g, keys) ==
    IF g.exc # NoExc THEN g
    ELSE IF g.ret = None THEN Done(g.bs, AttributeError, None, g.asked)
    ELSE Done(g.bs, NoExc, PyList([i \in DOMAIN keys |-> g.ret.v[keys[i]]]),
              g.asked)

(* return list(self._getmany(keys, ordered=True).values()) *)
MultiCache_get_many(bs, keys) == values(getmany(bs, keys), keys)

(* return any(c.has(key) for c in self._cache): a MultiCache has no        *)
(* attribute _cache.                                                       *)
MultiCache_has(bs, key) == Done(bs, AttributeError, None, 0)

(* A call of a MultiCache method: the list of backends after it and the    *)
(* record of the call.                                                     *)
MCall(op, key, keys, arg, oks, r) ==
    /\ mcall.n < MaxMultiCalls
    /\ backends' = r.bs
    /\ mcall' = [op |-> op, key |-> key, keys |-> keys, pre |-> backends,
                 arg |-> arg, oks |-> oks, asked |-> r.asked, exc |-> r.exc,
                 ret |-> r.ret, n |-> mcall.n + 1]
    /\ UNCHANGED python
    /\ UNCHANGED <<store_vars, maxsize, default_timeout, now>>
    /\ UNCHANGED <<ext_vars, caller_vars, thread_vars, memo_vars>>

m_set(key, value, oks) ==
    MCall("set", key, <<>>, value, oks, MultiCache_set(backends, key, value, oks))
m_inc(key, delta) ==
    MCall("inc", key, <<>>, None, <<>>, MultiCache_inc(backends, key, delta))
m_dec(key, delta) ==
    MCall("dec", key, <<>>, None, <<>>, MultiCache_dec(backends, key, delta))
m_delete(key) ==
    MCall("delete", key, <<>>, None, <<>>, MultiCache_delete(backends, key))
m_get(key) ==
    MCall("get", key, <<>>, None, <<>>, MultiCache_get(backends, key, 1))
m_get_dict(keys) ==
    MCall("get_dict", NoKey, keys, None, <<>>, MultiCache_get_dict(backends, keys))
m_get_many(keys) ==
    MCall("get_many", NoKey, keys, None, <<>>, MultiCache_get_many(backends, keys))
m_has(key) ==
    MCall("has", key, <<>>, None, <<>>, MultiCache_has(backends, key))

(* MultiCache(backends): any list of new caches of the two kinds. *)
InitMulti ==
    /\ InitStore
    /\ maxsize = MaxSize
    /\ InitCaller
    /\ NoThreads
    /\ NoEvent
    /\ NoKeys
    /\ NoCompress
    /\ NoMemo
    /\ backends \in UNION {[1..n -> {SafeBackend, BaseBackend(<<>>)}] :
                              n \in 0..MaxBackends}
    /\ python \in {2, 3}
    /\ mcall = NoCall

NextMulti ==
    \/ \E key \in TierKeys, value \in Values, oks \in [DOMAIN backends -> BOOLEAN] :
          m_set(key, value, oks)
    \/ \E key \in TierKeys, delta \in Deltas : m_inc(key, delta)
    \/ \E key \in TierKeys, delta \in Deltas : m_dec(key, delta)
    \/ \E key \in TierKeys : m_delete(key)
    \/ \E key \in TierKeys : m_get(key)
    \/ \E keys \in TierSeqs : m_get_dict(keys)
    \/ \E keys \in TierSeqs : m_get_many(keys)
    \/ \E key \in TierKeys : m_has(key)

SpecMulti == InitMulti /\ [][NextMulti]_all_vars


(***************************************************************************)
(* MemoizeManager over the cache it is given: a SafeSimpleCache, or the    *)
(* LRUCache of the tests, a mapping with get(key, default), item           *)
(* assignment, pop(key, default) and clear(), each under the store's lock. *)
(* The memoized function counts its calls by key and returns the count,    *)
(* as those of the tests do.                                               *)
(***************************************************************************)
NOT_CACHED == [t |-> "object", v |-> 1]
MemoKeys == {KeyOrder[1], KeyOrder[2]}

(* What a call of the manager finds: the counters, the cached results, the *)
(* calls of the function so far and the keys not called with since the     *)
(* last clear.                                                             *)
Found == [hits |-> hits, misses |-> misses, d |-> memo_cache.d,
          calls |-> fnc_calls, uncalled |-> rcall.uncalled]

(* Every thread is outside of the manager's methods. *)
Quiet == \A t \in Threads : pc[t].at = "idle"

(* The other threads are outside of the manager's methods. *)
Alone(t) == \A u \in Threads \ {t} : pc[u].at = "idle"

(* The record of a finished call, and whether the calls so far came one    *)
(* after the other.                                                        *)
Ran(op, key, pre, exc, ret, seq) ==
    [op |-> op, key |-> key, pre |-> pre, exc |-> exc, ret |-> ret,
     seq |-> rcall.seq /\ seq, n |-> rcall.n,
     uncalled |-> IF op = "clear" THEN MemoKeys
                  ELSE IF op = "run" THEN rcall.uncalled \ {key}
                  ELSE rcall.uncalled]

(* One more call of the manager has begun. *)
Called(r) == [r EXCEPT !.n = @ + 1]

(* A thread in the function is passed by thread t when t completes a call  *)
(* of the store.                                                           *)
Pass(t, p) ==
    [u \in Threads |->
        IF u # t /\ p[u].at = "fnc" THEN [p[u] EXCEPT !.passed = TRUE] ELSE p[u]]

(* dict.get(key, default) of the LRUCache *)
LRUCache_get(d, key, default) == IF key \in DOMAIN d THEN d[key] ELSE default

(* run, line 90: self._cache.get(key, self.NOT_CACHED).  SafeSimpleCache's *)
(* get takes the key alone: TypeError, before its lock is taken.  The      *)
(* LRUCache's get takes the lock.                                          *)
run_call(t, key) ==
    /\ pc[t].at = "idle"
    /\ rcall.n < MaxCalls
    /\ IF memo_cache.kind = "SafeSimpleCache"
       THEN /\ rcall' = Called(Ran("run", key, Found, TypeError, None, Alone(t)))
            /\ UNCHANGED <<lock, pc>>
       ELSE /\ lock = NoThread
            /\ lock' = t
            /\ pc' = [pc EXCEPT ![t] = [Idle EXCEPT !.op = "run", !.key = key,
                                                    !.at = "get", !.pre = Found,
                                                    !.passed = ~Alone(t)]]
            /\ rcall' = [Called(rcall) EXCEPT !.seq = @ /\ Alone(t)]
    /\ UNCHANGED <<hits, misses, memo_cache, fnc_calls>>
    /\ UNCHANGED <<store_vars, maxsize, default_timeout, now>>
    /\ UNCHANGED <<ext_vars, caller_vars, multi_vars>>

(* A lookup that keeps the store's lock when it misses, until the result   *)
(* is stored.                                                              *)
run_get_locked(t) ==
    /\ pc[t].at = "get"
    /\ IF LRUCache_get(memo_cache.d, pc[t].key, NOT_CACHED) # NOT_CACHED
       THEN /\ hits' = hits + 1
            /\ lock' = NoThread
            /\ rcall' = Ran("run", pc[t].key, pc[t].pre, NoExc,
                            LRUCache_get(memo_cache.d, pc[t].key, NOT_CACHED), TRUE)
            /\ pc' = Pass(t, [pc EXCEPT ![t] = Idle])
            /\ UNCHANGED misses
       ELSE /\ misses' = misses + 1
            /\ lock' = t
            /\ pc' = Pass(t, [pc EXCEPT ![t].at = "fnc"])
            /\ UNCHANGED <<hits, rcall>>
    /\ UNCHANGED <<memo_cache, fnc_calls>>
    /\ UNCHANGED <<store_vars, maxsize, default_timeout, now>>
    /\ UNCHANGED <<ext_vars, caller_vars, multi_vars>>

(* run, lines 90-94: the lookup returns and gives the lock back; a result  *)
(* that is not NOT_CACHED is a hit and is returned, else the miss is       *)
(* counted and the function is called.                                     *)
run_get(t) ==
    /\ pc[t].at = "get"
    /\ lock' = NoThread
    /\ IF LRUCache_get(memo_cache.d, pc[t].key, NOT_CACHED) # NOT_CACHED
       THEN /\ hits' = hits + 1
            /\ rcall' = Ran("run", pc[t].key, pc[t].pre, NoExc,
                            LRUCache_get(memo_cache.d, pc[t].key, NOT_CACHED),
                            ~pc[t].passed)
            /\ pc' = Pass(t, [pc EXCEPT ![t] = Idle])
            /\ UNCHANGED misses
       ELSE /\ misses' = misses + 1
            /\ pc' = Pass(t, [pc EXCEPT ![t].at = "fnc"])
            /\ UNCHANGED <<hits, rcall>>
    /\ UNCHANGED <<memo_cache, fnc_calls>>
    /\ UNCHANGED <<store_vars, maxsize, default_timeout, now>>
    /\ UNCHANGED <<ext_vars, caller_vars, multi_vars>>

(* run, line 95: the call of fnc returns, with no lock of the store        *)
(* taken by run.                                                           *)
run_fnc(t) ==
    /\ pc[t].at = "fnc"
    /\ fnc_calls' = [fnc_calls EXCEPT ![pc[t].key] = @ + 1]
    /\ pc' = [pc EXCEPT ![t].at = "result",
                        ![t].res = PyInt(fnc_calls[pc[t].key] + 1)]
    /\ UNCHANGED <<lock, hits, misses, memo_cache, rcall>>
    /\ UNCHANGED <<store_vars, maxsize, default_timeout, now>>
    /\ UNCHANGED <<ext_vars, caller_vars, multi_vars>>

(* run, line 95: self._cache[key] = result takes the store's lock. *)
run_setitem(t) ==
    /\ pc[t].at = "result"
    /\ lock = NoThread
    /\ lock' = t
    /\ pc' = [pc EXCEPT ![t].at = "setitem"]
    /\ UNCHANGED <<hits, misses, memo_cache, fnc_calls, rcall>>
    /\ UNCHANGED <<store_vars, maxsize, default_timeout, now>>
    /\ UNCHANGED <<ext_vars, caller_vars, multi_vars>>

(* run, lines 95-96: the result is stored, the lock given back and the     *)
(* result returned.                                                        *)
run_return(t) ==
    /\ pc[t].at = "setitem"
    /\ lock' = NoThread
    /\ memo_cache' = [memo_cache EXCEPT !.d = Put(@, pc[t].key, pc[t].res)]
    /\ rcall' = Ran("run", pc[t].key, pc[t].pre, NoExc, pc[t].res, ~pc[t].passed)
    /\ pc' = Pass(t, [pc EXCEPT ![t] = Idle])
    /\ UNCHANGED <<hits, misses, fnc_calls>>
    /\ UNCHANGED <<store_vars, maxsize, default_timeout, now>>
    /\ UNCHANGED <<ext_vars, caller_vars, multi_vars>>

(* pop: self._cache.pop(key, None).  A SafeSimpleCache has no pop. *)
pop(t, key) ==
    /\ pc[t].at = "idle"
    /\ rcall.n < MaxCalls
    /\ IF memo_cache.kind = "SafeSimpleCache"
       THEN /\ rcall' = Called(Ran("pop", key, Found, AttributeError, None, Alone(t)))
            /\ UNCHANGED <<memo_cache, pc>>
       ELSE /\ lock = NoThread
            /\ rcall' = Called(Ran("pop", key, Found, NoExc,
                                   LRUCache_get(memo_cache.d, key, None), Alone(t)))
            /\ memo_cache' = [memo_cache EXCEPT !.d =
                                 IF key \in DOMAIN @ THEN Drop(@, key) ELSE @]
            /\ pc' = Pass(t, pc)
    /\ UNCHANGED <<lock, hits, misses, fnc_calls>>
    /\ UNCHANGED <<store_vars, maxsize, default_timeout, now>>
    /\ UNCHANGED <<ext_vars, caller_vars, multi_vars>>

(* clear: both counters to 0, then self._cache.clear(). *)
memo_clear(t) ==
    /\ pc[t].at = "idle"
    /\ rcall.n < MaxCalls
    /\ lock = NoThread
    /\ hits' = 0
    /\ misses' = 0
    /\ memo_cache' = [memo_cache EXCEPT !.d = <<>>]
    /\ IF memo_cache.kind = "SafeSimpleCache"
       THEN Commit(SafeSimpleCache_clear(Store).s)
       ELSE UNCHANGED store_vars
    /\ rcall' = Called(Ran("clear", NoKey, Found, NoExc, None, Alone(t)))
    /\ pc' = Pass(t, pc)
    /\ UNCHANGED <<lock, fnc_calls>>
    /\ UNCHANGED <<maxsize, default_timeout, now>>
    /\ UNCHANGED <<ext_vars, caller_vars, multi_vars>>

(* hits: return self._hits *)
read_hits(t) ==
    /\ pc[t].at = "idle"
    /\ rcall.n < MaxCalls
    /\ rcall' = Called(Ran("hits", NoKey, Found, NoExc, PyInt(hits), Alone(t)))
    /\ UNCHANGED <<lock, pc, hits, misses, memo_cache, fnc_calls>>
    /\ UNCHANGED <<store_vars, maxsize, default_timeout, now>>
    /\ UNCHANGED <<ext_vars, caller_vars, multi_vars>>

(* misses: return self._missses, an attribute nothing sets. *)
read_misses(t) ==
    /\ pc[t].at = "idle"
    /\ rcall.n < MaxCalls
    /\ rcall' = Called(Ran("misses", NoKey, Found, AttributeError, None, Alone(t)))
    /\ UNCHANGED <<lock, pc, hits, misses, memo_cache, fnc_calls>>
    /\ UNCHANGED <<store_vars, maxsize, default_timeout, now>>
    /\ UNCHANGED <<ext_vars, caller_vars, multi_vars>>

(* MemoizeManager(cache): counters at 0, over a new cache of either kind. *)
InitMemo ==
    /\ InitStore
    /\ maxsize = MaxSize
    /\ InitCaller
    /\ NoThreads
    /\ NoEvent
    /\ NoKeys
    /\ NoCompress
    /\ NoMulti
    /\ hits = 0
    /\ misses = 0
    /\ memo_cache \in {[kind |-> "SafeSimpleCache", d |-> <<>>],
                       [kind |-> "LRUCache", d |-> <<>>]}
    /\ fnc_calls = [k \in Keys |-> 0]
    /\ rcall = NoRun

NextMemo ==
    \/ \E t \in Threads, key \in MemoKeys : run_call(t, key)
    \/ \E t \in Threads : run_get(t)
    \/ \E t \in Threads : run_fnc(t)
    \/ \E t \in Threads : run_setitem(t)
    \/ \E t \in Threads : run_return(t)
    \/ \E t \in Threads, key \in MemoKeys : pop(t, key)
    \/ \E t \in Threads : memo_clear(t)
    \/ \E t \in Threads : read_hits(t)
    \/ \E t \in Threads : read_misses(t)

SpecMemo == InitMemo /\ [][NextMemo]_all_vars


(***************************************************************************)
(* Event: a list of handlers that is called under a lock that is taken     *)
(* without waiting, with the arguments of the calls in a queue.  The       *)
(* handlers are those of the tests: a.append, and one that calls the Event *)
(* again with x + 1 while x is below 2.                                    *)
(***************************************************************************)
IndexError == "IndexError"
RefireBelow == 2
Args == 1..RefireBelow
Handlers == {"append", "refire"}

(* The innermost call of thread t, and the call stack with it replaced or  *)
(* returned from.                                                          *)
Top(t) == stack[t][Len(stack[t])]
Calling(t) == stack[t] # <<>>
SetTop(t, f) == [stack[t] EXCEPT ![Len(stack[t])] = f]
Return(t) == SubSeq(stack[t], 1, Len(stack[t]) - 1)

TopLevel(f) == SelectSeq(f, LAMBDA r : ~r.nested)

(* No other thread is in a call of the Event. *)
Apart(t) == \A u \in Threads \ {t} : ~Calling(u)

(* The calls of the Event the threads make: MaxFires of them, and one more *)
(* once a call has raised, so that what such a call leaves is seen.        *)
Fires == MaxFires + (IF raised = <<>> THEN 0 ELSE 1)

(* __call__, line 49: self._queue.append((args, kwargs)), by a thread that *)
(* is not in a call of the Event.                                          *)
call_append(t, x) ==
    /\ ~Calling(t)
    /\ Len(TopLevel(fired)) < Fires
    /\ queue' = Append(queue, x)
    /\ fired' = Append(fired, [x |-> x, nested |-> FALSE, apart |-> Apart(t)])
    /\ stack' = [stack EXCEPT ![t] = <<[at |-> "test", x |-> x, i |-> 0]>>]
    /\ UNCHANGED <<event, event_lock, trace, raised>>
    /\ UNCHANGED <<vars, thread_vars, multi_vars, memo_vars, key_vars,
                 compress_vars>>

(* __call__, line 50: while self._queue; an empty queue ends the call. *)
call_test(t) ==
    /\ Calling(t)
    /\ Top(t).at = "test"
    /\ stack' = [stack EXCEPT ![t] =
                    IF queue # <<>> THEN SetTop(t, [Top(t) EXCEPT !.at = "acquire"])
                    ELSE Return(t)]
    /\ UNCHANGED <<event, queue, event_lock, fired, trace, raised>>
    /\ UNCHANGED <<vars, thread_vars, multi_vars, memo_vars, key_vars,
                 compress_vars>>

(* A lock that the thread holding it may take again. *)
call_acquire_reentrant(t) ==
    /\ Calling(t)
    /\ Top(t).at = "acquire"
    /\ IF event_lock \in {NoThread, t}
       THEN /\ event_lock' = t
            /\ stack' = [stack EXCEPT ![t] = SetTop(t, [Top(t) EXCEPT !.at = "popleft"])]
       ELSE /\ stack' = [stack EXCEPT ![t] = Return(t)]
            /\ UNCHANGED event_lock
    /\ UNCHANGED <<event, queue, fired, trace, raised>>
    /\ UNCHANGED <<vars, thread_vars, multi_vars, memo_vars, key_vars,
                 compress_vars>>

(* __call__, lines 51 and 57-58: self._lock.acquire(False); a lock that is *)
(* held, by this thread too, ends the call (break).                        *)
call_acquire(t) ==
    /\ Calling(t)
    /\ Top(t).at = "acquire"
    /\ IF event_lock = NoThread
       THEN /\ event_lock' = t
            /\ stack' = [stack EXCEPT ![t] = SetTop(t, [Top(t) EXCEPT !.at = "popleft"])]
       ELSE /\ stack' = [stack EXCEPT ![t] = Return(t)]
            /\ UNCHANGED event_lock
    /\ UNCHANGED <<event, queue, fired, trace, raised>>
    /\ UNCHANGED <<vars, thread_vars, multi_vars, memo_vars, key_vars,
                 compress_vars>>

(* A pop that gives the lock back before the handlers are called. *)
call_popleft_unlocked(t) ==
    /\ Calling(t)
    /\ Top(t).at = "popleft"
    /\ event_lock' = NoThread
    /\ IF queue = <<>>
       THEN /\ raised' = Append(raised, IndexError)
            /\ stack' = [stack EXCEPT ![t] = <<>>]
            /\ UNCHANGED queue
       ELSE /\ queue' = Tail(queue)
            /\ stack' = [stack EXCEPT ![t] =
                            SetTop(t, [at |-> "handlers", x |-> Head(queue), i |-> 1])]
            /\ UNCHANGED raised
    /\ UNCHANGED <<event, fired, trace>>
    /\ UNCHANGED <<vars, thread_vars, multi_vars, memo_vars, key_vars,
                 compress_vars>>

(* __call__, lines 52-54: args, kwargs = self._queue.popleft().  Of an     *)
(* empty deque it raises IndexError, which takes the call to its finally.  *)
call_popleft(t) ==
    /\ Calling(t)
    /\ Top(t).at = "popleft"
    /\ IF queue = <<>>
       THEN /\ raised' = Append(raised, IndexError)
            /\ stack' = [stack EXCEPT ![t] =
                            SetTop(t, [Top(t) EXCEPT !.at = "finally"])]
            /\ UNCHANGED queue
       ELSE /\ queue' = Tail(queue)
            /\ stack' = [stack EXCEPT ![t] =
                            SetTop(t, [at |-> "handlers", x |-> Head(queue), i |-> 1])]
            /\ UNCHANGED raised
    /\ UNCHANGED <<event, event_lock, fired, trace>>
    /\ UNCHANGED <<vars, thread_vars, multi_vars, memo_vars, key_vars,
                 compress_vars>>

(* __call__, lines 57-58, after popleft has raised: finally:               *)
(* self._lock.release(), and the exception leaves the call.                *)
call_finally(t) ==
    /\ Calling(t)
    /\ Top(t).at = "finally"
    /\ event_lock' = NoThread
    /\ stack' = [stack EXCEPT ![t] = <<>>]
    /\ UNCHANGED <<event, queue, fired, trace, raised>>
    /\ UNCHANGED <<vars, thread_vars, multi_vars, memo_vars, key_vars,
                 compress_vars>>

(* __call__, lines 54-55: the loop over the handlers of self, one handler  *)
(* at a time.  a.append returns; the handler of test_thread_safety calls   *)
(* the Event with x + 1 while x < 2, which queues x + 1 (line 49) and      *)
(* enters the loop of the inner call.                                      *)
call_handler(t) ==
    /\ Calling(t)
    /\ Top(t).at = "handlers"
    /\ Top(t).i <= Len(event)
    /\ trace' = Append(trace, [x |-> Top(t).x, i |-> Top(t).i])
    /\ IF event[Top(t).i] = "refire" /\ Top(t).x < RefireBelow
       THEN /\ queue' = Append(queue, Top(t).x + 1)
            /\ fired' = Append(fired, [x |-> Top(t).x + 1, nested |-> TRUE,
                                       apart |-> Apart(t)])
            /\ stack' = [stack EXCEPT ![t] =
                            Append(SetTop(t, [Top(t) EXCEPT !.i = @ + 1]),
                                   [at |-> "test", x |-> Top(t).x + 1, i |-> 0])]
       ELSE /\ stack' = [stack EXCEPT ![t] = SetTop(t, [Top(t) EXCEPT !.i = @ + 1])]
            /\ UNCHANGED <<queue, fired>>
    /\ UNCHANGED <<event, event_lock, raised>>
    /\ UNCHANGED <<vars, thread_vars, multi_vars, memo_vars, key_vars,
                 compress_vars>>

(* __call__, lines 55-56: the last handler has returned; finally:          *)
(* self._lock.release(), and back to the test of the loop.                 *)
call_release(t) ==
    /\ Calling(t)
    /\ Top(t).at = "handlers"
    /\ Top(t).i > Len(event)
    /\ event_lock' = NoThread
    /\ stack' = [stack EXCEPT ![t] = SetTop(t, [Top(t) EXCEPT !.at = "test"])]
    /\ UNCHANGED <<event, queue, fired, trace, raised>>
    /\ UNCHANGED <<vars, thread_vars, multi_vars, memo_vars, key_vars,
                 compress_vars>>

(* The lists of handlers an Event is made of: appending handlers and, as  *)
(* in test_thread_safety, at most one that calls the Event again, which   *)
(* is then the first of the list.                                         *)
HandlerLists ==
    {l \in UNION {[1..n -> Handlers] : n \in 0..MaxHandlers} :
        \A i \in DOMAIN l : l[i] = "refire" => i = 1}

(* Event(iterable): the handlers given, a new lock and an empty queue. *)
InitEvent ==
    /\ InitStore
    /\ maxsize = MaxSize
    /\ InitCaller
    /\ NoThreads
    /\ NoMulti
    /\ NoMemo
    /\ NoKeys
    /\ NoCompress
    /\ event \in HandlerLists
    /\ queue = <<>>
    /\ event_lock = NoThread
    /\ stack = [t \in Threads |-> <<>>]
    /\ fired = <<>>
    /\ trace = <<>>
    /\ raised = <<>>

NextEvent ==
    \/ \E t \in Threads, x \in Args : call_append(t, x)
    \/ \E t \in Threads : call_test(t)
    \/ \E t \in Threads : call_acquire(t)
    \/ \E t \in Threads : call_popleft(t)
    \/ \E t \in Threads : call_finally(t)
    \/ \E t \in Threads : call_handler(t)
    \/ \E t \in Threads : call_release(t)

SpecEvent == InitEvent /\ [][NextEvent]_all_vars


(***************************************************************************)
(* MemoizeManager.make_key and HashTuple.  The arguments are numbers: an   *)
(* int and a float of the same value are equal and hash alike in Python.   *)
(* Keyword arguments come as the pairs of a dict in the order they were    *)
(* given.                                                                  *)
(***************************************************************************)
PyFloat(n) == [t |-> "float", v |-> n]
ArgValues == {PyInt(1), PyFloat(1), PyInt(2)}
NameOrder == <<"a", "b">>
Names == {NameOrder[i] : i \in DOMAIN NameOrder}
NameIndex(n) == CHOOSE i \in DOMAIN NameOrder : NameOrder[i] = n

(* x == y, hash(x) and hash of a class or of a name *)
PyEq(a, b) == a.v = b.v
PyHash(a) == a.v
ClassHash(c) == IF c = "int" THEN 11 ELSE 13
NameHash(n) == 16 + NameIndex(n)

(* tuple.__hash__: the hashes of the items combined in order, in 16 bits *)
RECURSIVE TupleHash(_)
TupleHash(hs) ==
    IF hs = <<>> THEN 7
    ELSE (TupleHash(SubSeq(hs, 1, Len(hs) - 1)) * 31 + hs[Len(hs)]) % 65536

(* sorted(kwargs.items()): by name, the names of a dict being distinct *)
RECURSIVE sorted(_)
Insert(items, p) ==
    LET before == SelectSeq(items, LAMBDA q : NameIndex(q[1]) < NameIndex(p[1]))
        after == SelectSeq(items, LAMBDA q : NameIndex(q[1]) >= NameIndex(p[1]))
    IN before \o <<p>> \o after
sorted(items) ==
    IF items = <<>> THEN <<>>
    ELSE Insert(sorted(Tail(items)), Head(items))

(* make_key with the keyword arguments in the order they were given. *)
make_key_unsorted(args, kwargs) ==
    <<[i \in DOMAIN args |-> <<args[i], args[i].t>>],
      [i \in DOMAIN kwargs |-> <<kwargs[i][1], kwargs[i][2], kwargs[i][2].t>>]>>

(* make_key, lines 81-86: (arg, arg.__class__) for the positional          *)
(* arguments, (key, value, value.__class__) for the sorted items of        *)
(* kwargs, both in a HashTuple.                                            *)
make_key(args, kwargs) ==
    <<[i \in DOMAIN args |-> <<args[i], args[i].t>>],
      [i \in DOMAIN sorted(kwargs) |->
          <<sorted(kwargs)[i][1], sorted(kwargs)[i][2], sorted(kwargs)[i][2].t>>]>>

(* tuple.__eq__ of two keys: item by item, values by ==, classes and names *)
(* by identity.                                                            *)
KeyEq(k1, k2) ==
    /\ Len(k1[1]) = Len(k2[1])
    /\ \A i \in DOMAIN k1[1] :
          PyEq(k1[1][i][1], k2[1][i][1]) /\ k1[1][i][2] = k2[1][i][2]
    /\ Len(k1[2]) = Len(k2[2])
    /\ \A i \in DOMAIN k1[2] :
          /\ k1[2][i][1] = k2[2][i][1]
          /\ PyEq(k1[2][i][2], k2[2][i][2])
          /\ k1[2][i][3] = k2[2][i][3]

(* HashTuple.__hash__, lines 17-25: tuple.__hash__(self), of the two inner *)
(* tuples and of their items.                                              *)
HashTuple_hash(k) ==
    TupleHash(<<TupleHash([i \in DOMAIN k[1] |->
                             TupleHash(<<PyHash(k[1][i][1]), ClassHash(k[1][i][2])>>)]),
                TupleHash([i \in DOMAIN k[2] |->
                             TupleHash(<<NameHash(k[2][i][1]), PyHash(k[2][i][2]),
                                         ClassHash(k[2][i][3])>>)])>>)

(* The positional and the keyword arguments of a call. *)
ArgLists == UNION {[1..n -> ArgValues] : n \in 0..MaxArgs}
KwargLists ==
    {l \in UNION {[1..n -> Names \X ArgValues] : n \in 0..Len(NameOrder)} :
        \A i, j \in DOMAIN l : l[i][1] = l[j][1] => i = j}

(* The two calls are made. *)
make_keys ==
    /\ kout = <<>>
    /\ kin # <<>>
    /\ kout' = [key1 |-> make_key(kin.args1, kin.kwargs1),
                key2 |-> make_key(kin.args2, kin.kwargs2),
                hash1 |-> HashTuple_hash(make_key(kin.args1, kin.kwargs1)),
                hash2 |-> HashTuple_hash(make_key(kin.args2, kin.kwargs2))]
    /\ UNCHANGED <<kin, vars, thread_vars, multi_vars, memo_vars, event_vars,
                 compress_vars>>

InitKeys ==
    /\ InitStore
    /\ maxsize = MaxSize
    /\ InitCaller
    /\ NoThreads
    /\ NoEvent
    /\ NoCompress
    /\ NoMulti
    /\ NoMemo
    /\ kin \in [args1 : ArgLists, kwargs1 : KwargLists,
                args2 : ArgLists, kwargs2 : KwargLists]
    /\ kout = <<>>

NextKeys == make_keys

SpecKeys == InitKeys /\ [][NextKeys]_all_vars


(***************************************************************************)
(* extensions.py: the compress contexts of the jinja2 extension.  A        *)
(* template is a sequence of items: a character of template data, or a     *)
(* token of another type.  A character is a record of the character and    *)
(* of whether it stands inside the content of a block tag; the flag plays  *)
(* no part in what the context does.                                       *)
(***************************************************************************)
BlockTokens == {<<"variable_begin", "variable_end">>,
                <<"block_begin", "block_end">>}
TokenTypes == {"variable_begin", "name", "variable_end",
               "block_begin", "block_end", "eof"}

Ch(c) == [c |-> c, lit |-> FALSE]
IsData(x) == x.c \notin TokenTypes

(* A str of the program, from its characters, and back. *)
Str(cs) == [i \in DOMAIN cs |-> Ch(cs[i])]
Chars(s) == [i \in DOMAIN s |-> s[i].c]

(* value[:index] and value[index:] *)
Upto(s, index) == SubSeq(s, 1, index)
From(s, index) == SubSeq(s, index + 1, Len(s))

Least(S) == CHOOSE i \in S : \A j \in S : i <= j
Most(S) == CHOOSE i \in S : \A j \in S : i >= j

(* value.find(mark, offset): the least index at or after offset where the  *)
(* mark stands, -1 when there is none.                                     *)
Occurrences(value, mark, offset) ==
    {i \in offset..(Len(value) - Len(mark)) :
        Chars(SubSeq(value, i + 1, i + Len(mark))) = mark}

find(value, mark, offset) ==
    IF Occurrences(value, mark, offset) = {} THEN -1
    ELSE Least(Occurrences(value, mark, offset))

(* str.lstrip, str.rstrip and str.strip *)
IsSpace(x) == x.c \in {" ", "\t", "\r", "\n"}
Inked(s) == {i \in DOMAIN s : ~IsSpace(s[i])}
lstrip(s) == IF Inked(s) = {} THEN <<>> ELSE SubSeq(s, Least(Inked(s)), Len(s))
rstrip(s) == IF Inked(s) = {} THEN <<>> ELSE SubSeq(s, 1, Most(Inked(s)))
strip(s) == lstrip(rstrip(s))

(* re_whitespace.sub(' ', data): every run of blanks becomes one blank. *)
RECURSIVE re_whitespace_sub(_)
re_whitespace_sub(s) ==
    IF s = <<>> THEN <<>>
    ELSE IF IsSpace(s[1]) THEN <<Ch(" ")>> \o re_whitespace_sub(lstrip(s))
    ELSE <<s[1]>> \o re_whitespace_sub(Tail(s))

(* data.split(' ', 1)[0] *)
Blanks(s) == {i \in DOMAIN s : s[i].c = " "}
split_first(s) == IF Blanks(s) = {} THEN s ELSE SubSeq(s, 1, Least(Blanks(s)) - 1)

(* SGMLCompressContext.jumps: the marks that leave each state and the     *)
(* state each leads to.  The entry of 'lit2' is a tuple, not a dict.       *)
Dict(items) == [type |-> "dict", items |-> items]
Tuple(items) == [type |-> "tuple", items |-> items]

jumps ==
    [text |-> Dict({<<<<"<">>, "tag">>,
                    <<<<"<", "!", "-", "-">>, "comment">>,
                    <<<<"<", "!", "[", "C", "D", "A", "T", "A", "[">>,
                      "cdata">>}),
     lit1 |-> Dict({<<<<"\"">>, "tag">>}),
     lit2 |-> Tuple(<<<<"'">>, "tag">>),
     tag |-> Dict({<<<<">">>, "text">>,
                   <<<<"\"">>, "lit1">>,
                   <<<<"'">>, "lit2">>}),
     comment |-> Dict({<<<<"-", "-", ">">>, "text">>}),
     cdata |-> Dict({<<<<"]", "]", ">">>, "text">>})]

(* HTMLCompressContext.block_tags *)
block_tags ==
    {<<<<"t", "e", "x", "t", "a", "r", "e", "a">>,
       <<"<", "/", "t", "e", "x", "t", "a", "r", "e", "a", ">">>>>,
     <<<<"p", "r", "e">>, <<"<", "/", "p", "r", "e", ">">>>>,
     <<<<"s", "c", "r", "i", "p", "t">>,
       <<"<", "/", "s", "c", "r", "i", "p", "t", ">">>>>,
     <<<<"s", "t", "y", "l", "e">>, <<"<", "/", "s", "t", "y", "l", "e", ">">>>>}

(* block_tags.get(tagname): None is the empty mark here, as a mark is      *)
(* only tested for being falsy.                                            *)
block_tags_get(tagname) ==
    IF \E b \in block_tags : b[1] = Chars(tagname)
    THEN (CHOOSE b \in block_tags : b[1] = Chars(tagname))[2]
    ELSE <<>>

(* HTMLCompressContext(): the class attributes. *)
NewContext ==
    [current |-> "text", start |-> <<>>, pending |-> <<>>,
     skip_until |-> <<>>, skip_until_token |-> "None"]

(* SGMLCompressContext._minify: the data it returns and self.skip_until    *)
(* as it leaves it.                                                        *)
Minified(data, skip_until) == [data |-> data, skip_until |-> skip_until]

minify_tagstart(data) ==
    Minified(<<Ch("<")>> \o data, block_tags_get(split_first(data)))

minify_tag(data, start, partial, skip_until) ==
    IF partial THEN Minified(rstrip(data), skip_until)
    ELSE IF Chars(strip(data)) = start THEN Minified(Str(start), skip_until)
    ELSE Minified(data, skip_until)

minify(data, current, start, partial, skip_until) ==
    IF current = "tag"
    THEN IF start = <<"<">>
         THEN minify_tagstart(
                  IF partial THEN lstrip(re_whitespace_sub(From(data, 1)))
                  ELSE strip(re_whitespace_sub(From(data, 1))))
         ELSE minify_tag(re_whitespace_sub(data), start, partial, skip_until)
    ELSE IF current = "text"
    THEN IF skip_until = <<>>
         THEN IF Chars(strip(data)) = start
              THEN Minified(Str(start), skip_until)
              ELSE Minified(data, skip_until)
         ELSE IF ~partial THEN Minified(data, <<>>)
         ELSE Minified(data, skip_until)
    ELSE Minified(data, skip_until)

(* SGMLCompressContext._options and the _options of the base class it     *)
(* calls: the options found, without the closing one that has no mark.     *)
Option(index, mark, next) == [index |-> index, mark |-> mark, next |-> next]

options(c) ==
    IF c.skip_until # <<>> /\ c.current = "text"
    THEN {Option(find(c.pending, c.skip_until, Len(c.start)), c.skip_until,
                 c.current)} \ {Option(-1, c.skip_until, c.current)}
    ELSE {Option(find(c.pending, j[1], Len(c.start)), j[1], j[2]) :
            j \in {i \in jumps[c.current].items :
                     find(c.pending, i[1], Len(c.start)) # -1}}

(* jumps[current].items() of a tuple raises AttributeError. *)
options_raises(c) ==
    /\ ~(c.skip_until # <<>> /\ c.current = "text")
    /\ jumps[c.current].type # "dict"

(* min(options, key=lambda x: (x[0], -len(x[1]))) *)
min_option(S) ==
    CHOOSE x \in S : \A y \in S :
        \/ x.index < y.index
        \/ x.index = y.index /\ Len(x.mark) >= Len(y.mark)

(* The loop of feed, from the context and what feed has yielded so far.    *)
Fed(c, out, exc) == [c |-> c, out |-> out, exc |-> exc]

RECURSIVE feed_loop(_, _)
feed_jump(c, out, o, m) ==
    feed_loop([c EXCEPT !.start = o.mark, !.current = o.next,
                        !.pending = From(c.pending, o.index),
                        !.skip_until = m.skip_until],
              out \o m.data)

feed_option(c, out, o) ==
    feed_jump(c, out, o,
              minify(Upto(c.pending, o.index), c.current, c.start, FALSE,
                     c.skip_until))

feed_loop(c, out) ==
    IF options_raises(c) THEN Fed(c, out, AttributeError)
    ELSE IF options(c) = {} THEN Fed(c, out, NoExc)
    ELSE feed_option(c, out, min_option(options(c)))

(* StateMachineCompressContext.finalize *)
finalized(c, out, m) ==
    Fed([c EXCEPT !.start = <<>>, !.pending = <<>>,
                  !.skip_until = m.skip_until],
        out \o m.data, NoExc)

finalize(c, out) ==
    IF c.pending # <<>>
    THEN finalized(c, out,
                   minify(c.pending, c.current, c.start, TRUE, c.skip_until))
    ELSE Fed([c EXCEPT !.start = <<>>, !.pending = <<>>], out, NoExc)

Feeding(r) ==
    /\ context' = r.c
    /\ emitted' = r.out
    /\ failed' = r.exc

(* feed(token) while inside a block of the template: the token passes. *)
feed_skipped ==
    /\ failed = NoExc
    /\ stream # <<>>
    /\ context.skip_until_token # "None"
    /\ Head(stream).c # "eof"
    /\ emitted' = Append(emitted, Head(stream))
    /\ context' = [context EXCEPT !.skip_until_token =
                      IF Head(stream).c = @ THEN "None" ELSE @]
    /\ stream' = Tail(stream)
    /\ UNCHANGED <<source, failed>>
    /\ UNCHANGED <<vars, thread_vars, multi_vars, memo_vars, event_vars,
                 key_vars>>

(* feed(token) of a token that opens a block of the template. *)
feed_block ==
    /\ failed = NoExc
    /\ stream # <<>>
    /\ context.skip_until_token = "None"
    /\ \E b \in BlockTokens :
        /\ b[1] = Head(stream).c
        /\ Feeding([finalize(context, emitted) EXCEPT
                      !.out = Append(@, Head(stream)),
                      !.c.skip_until_token = b[2]])
    /\ stream' = Tail(stream)
    /\ UNCHANGED source
    /\ UNCHANGED <<vars, thread_vars, multi_vars, memo_vars, event_vars,
                 key_vars>>

(* The length of the data the stream starts with. *)
Run(s) == IF \A i \in DOMAIN s : IsData(s[i]) THEN Len(s)
          ELSE Least({i \in DOMAIN s : ~IsData(s[i])}) - 1

(* feed(token) of a data token of n characters: a short one, or all the  *)
(* data the stream starts with.                                           *)
feed_data(n) ==
    /\ failed = NoExc
    /\ Len(stream) >= n
    /\ n <= MaxToken \/ n = Run(stream)
    /\ context.skip_until_token = "None"
    /\ \A i \in 1..n : IsData(stream[i])
    /\ Feeding(feed_loop([context EXCEPT !.pending = @ \o Upto(stream, n)],
                         emitted))
    /\ stream' = From(stream, n)
    /\ UNCHANGED source
    /\ UNCHANGED <<vars, thread_vars, multi_vars, memo_vars, event_vars,
                 key_vars>>

(* CompressExtension.supported_filter_stream at the end of the stream. *)
supported_filter_stream_end ==
    /\ failed = NoExc
    /\ stream # <<>>
    /\ Head(stream).c = "eof"
    /\ Feeding(finalize(context, emitted))
    /\ stream' = Tail(stream)
    /\ UNCHANGED source
    /\ UNCHANGED <<vars, thread_vars, multi_vars, memo_vars, event_vars,
                 key_vars>>

(* The templates fed: up to MaxPieces pieces, each a tag, a blank, a      *)
(* letter or a variable of the template, as in test_ignored_content and   *)
(* test_broken.  The content of a block tag is what stands between the    *)
(* tag that opens it and the next tag that closes it, or the end.         *)
OpenTags == {<<"<", "p", "r", "e", ">">>,
             <<"<", "p", "r", "e", " ", "a", "=", "\"", " ", "\"", ">">>,
             <<"<", "p", "r", "e", " ", "a", "=", "'", "b", "'", ">">>}
CloseTag == <<"<", "/", "p", "r", "e", ">">>
Pieces == OpenTags \cup
          {CloseTag, <<"<", "b", ">">>, <<" ">>, <<"a">>,
           <<"variable_begin", "name", "variable_end">>}

Lit(s) == [i \in DOMAIN s |-> [s[i] EXCEPT !.lit = IsData(s[i])]]

RECURSIVE Template(_, _)
Template(ps, inblock) ==
    IF ps = <<>> THEN <<Ch("eof")>>
    ELSE IF inblock /\ Head(ps) # CloseTag
    THEN Lit(Str(Head(ps))) \o Template(Tail(ps), TRUE)
    ELSE Str(Head(ps)) \o Template(Tail(ps), ~inblock /\ Head(ps) \in OpenTags)

Templates == {Template(ps, FALSE) :
                ps \in UNION {[1..n -> Pieces] : n \in 1..MaxPieces}}

(* The sizes a data token of these templates can have. *)
TokenSizes == 1..Most({Len(p) : p \in Pieces}) * MaxPieces

(* context_class() before the first token of the stream. *)
InitCompress ==
    /\ InitStore
    /\ maxsize = MaxSize
    /\ InitCaller
    /\ NoThreads
    /\ NoEvent
    /\ NoKeys
    /\ NoMulti
    /\ NoMemo
    /\ source \in Templates
    /\ stream = source
    /\ context = NewContext
    /\ emitted = <<>>
    /\ failed = NoExc

NextCompress ==
    \/ feed_skipped
    \/ feed_block
    \/ \E n \in TokenSizes : feed_data(n)
    \/ supported_filter_stream_end

SpecCompress == InitCompress /\ [][NextCompress]_all_vars


(***************************************************************************)
(* The scan loop of feed, one iteration at a time, for each of the         *)
(* contexts that compress: HTMLCompressContext, SGMLCompressContext and    *)
(* JSONCompressContext.                                                    *)
(***************************************************************************)
Contexts == {"HTMLCompressContext", "SGMLCompressContext",
             "JSONCompressContext"}

(* JSONCompressContext.jumps *)
json_jumps ==
    [object |-> Dict({<<<<"\"">>, "string">>}),
     string |-> Dict({<<<<"\"">>, "object">>, <<<<"\\">>, "escape">>})]

(* The states of each context's machine. *)
States(cls) ==
    IF cls = "JSONCompressContext" THEN {"object", "string", "escape"}
    ELSE DOMAIN jumps

(* StateMachineCompressContext._options over a table of jumps, without    *)
(* the closing option that has no mark.                                    *)
StateMachine_options(c, table) ==
    {Option(find(c.pending, j[1], Len(c.start)), j[1], j[2]) :
        j \in {i \in table[c.current].items :
                 find(c.pending, i[1], Len(c.start)) # -1}}

(* JSONCompressContext._options: in 'escape' the first character of the   *)
(* value is the mark, at index 0, and the state stays 'escape'.            *)
JSON_options(c) ==
    IF c.current = "escape"
    THEN IF c.pending # <<>>
         THEN {Option(0, <<c.pending[1].c>>, c.current)}
         ELSE {}
    ELSE StateMachine_options(c, json_jumps)

(* In any other state it calls super(SGMLCompressContext, self), of which  *)
(* self is no instance: TypeError.                                         *)
JSON_options_raises(c) == c.current # "escape"

(* JSONCompressContext._minify: data.replace(' ', '') in 'object'. *)
JSON_minify(data, current, skip_until) ==
    IF current = "object"
    THEN Minified(SelectSeq(data, LAMBDA x : x.c # " "), skip_until)
    ELSE Minified(data, skip_until)

(* The _options and the _minify of the context's class.  The block_tags   *)
(* of SGMLCompressContext are empty, so its skip_until stays None.         *)
class_raises(c) ==
    IF c.cls = "JSONCompressContext"
    THEN IF JSON_options_raises(c) THEN TypeError ELSE NoExc
    ELSE IF options_raises(c) THEN AttributeError ELSE NoExc

class_options(c) ==
    IF c.cls = "JSONCompressContext" THEN JSON_options(c) ELSE options(c)

class_minify(c, data, partial) ==
    IF c.cls = "JSONCompressContext"
    THEN JSON_minify(data, c.current, c.skip_until)
    ELSE IF c.cls = "SGMLCompressContext"
    THEN [minify(data, c.current, c.start, partial, c.skip_until)
            EXCEPT !.skip_until = <<>>]
    ELSE minify(data, c.current, c.start, partial, c.skip_until)

(* The characters of the data tokens, and the tokens. *)
FeedChars == {"<", ">", "'", "\"", "\\", " ", "a"}
FeedTokens == UNION {[1..n -> FeedChars] : n \in 1..MaxToken}

(* The iterations of the loop that are followed. *)
ScanLimit == MaxPieces + 2

(* feed, lines 51-53: the value of a data token joins self.pending. *)
feed_pending(token) ==
    /\ failed = NoExc
    /\ context.at = "feed"
    /\ Len(source) + Len(token) <= MaxPieces
    /\ source' = source \o Str(token)
    /\ context' = [context EXCEPT !.pending = @ \o Str(token),
                                  !.at = "scan", !.n = 0]
    /\ UNCHANGED <<stream, emitted, failed>>
    /\ UNCHANGED <<vars, thread_vars, multi_vars, memo_vars, event_vars,
                 key_vars>>

(* feed, lines 54-66: one iteration of the loop with the option min()     *)
(* gives: the data up to the mark is yielded and the context moves on.    *)
scan_jump(c, o, m) ==
    /\ context' = [c EXCEPT !.start = o.mark, !.current = o.next,
                            !.pending = From(c.pending, o.index),
                            !.skip_until = m.skip_until,
                            !.n = @ + 1]
    /\ emitted' = emitted \o m.data

scan_option(c, o) ==
    scan_jump(c, o, class_minify(c, Upto(c.pending, o.index), FALSE))

(* feed, lines 54-66: one iteration.  _options raises, or there is no     *)
(* option with a mark and the loop ends (break), or the loop goes on.     *)
feed_scan ==
    /\ failed = NoExc
    /\ context.at = "scan"
    /\ context.n < ScanLimit
    /\ IF class_raises(context) # NoExc
       THEN /\ failed' = class_raises(context)
            /\ UNCHANGED <<context, emitted>>
       ELSE IF class_options(context) = {}
       THEN /\ context' = [context EXCEPT !.at = "feed"]
            /\ UNCHANGED <<emitted, failed>>
       ELSE /\ scan_option(context, min_option(class_options(context)))
            /\ UNCHANGED failed
    /\ UNCHANGED <<stream, source>>
    /\ UNCHANGED <<vars, thread_vars, multi_vars, memo_vars, event_vars,
                 key_vars>>

(* A context of one of the classes in one of the states of its machine,   *)
(* with nothing pending, as finalize leaves it.                            *)
InitFeed ==
    /\ InitStore
    /\ maxsize = MaxSize
    /\ InitCaller
    /\ NoThreads
    /\ NoEvent
    /\ NoKeys
    /\ NoMulti
    /\ NoMemo
    /\ \E cls \in Contexts : \E current \in States(cls) :
          context = [cls |-> cls, current |-> current, start |-> <<>>,
                     pending |-> <<>>, skip_until |-> <<>>,
                     skip_until_token |-> "None", at |-> "feed", n |-> 0]
    /\ stream = <<>>
    /\ emitted = <<>>
    /\ source = <<>>
    /\ failed = NoExc

NextFeed ==
    \/ \E token \in FeedTokens : feed_pending(token)
    \/ feed_scan

SpecFeed == InitFeed /\ [][NextFeed]_all_vars


(***************************************************************************)
(* The claims.                                                             *)
(***************************************************************************)

(* The size, and the keys, the last call found. *)
size0 == Cardinality(DOMAIN last.pre.cache)
keys0 == DOMAIN last.pre.cache
had == last.key \in DOMAIN last.pre.cache

(* C1: in a store of capacity N that holds N keys, a set of a key that is  *)
(* not present removes exactly one key, the least recently used one, and   *)
(* the other N-1 keys and the new key are present afterwards.  For a       *)
(* caller that has only called set and set_many, the least recently used   *)
(* key is the first of recent: once N+1 different keys have been set (set  *)
(* 0, set 1, set 2 with maxsize 2), the first of them is absent and the N  *)
(* set after it are present.                                               *)
C1_EvictsLeastRecentlyUsed ==
    /\ (last.op = "set" /\ ~had /\ size0 = maxsize) =>
          /\ last.key \in DOMAIN cache
          /\ \E victim \in keys0 :
                /\ DOMAIN cache = (keys0 \ {victim}) \cup {last.key}
                /\ phase = "set" =>
                      \A i \in DOMAIN recent :
                         (\A j \in 1..(i - 1) : recent[j] \notin keys0)
                            /\ recent[i] \in keys0 => victim = recent[i]
    /\ (phase = "set" /\ Len(recent) = maxsize + 1) =>
          /\ recent[1] \notin DOMAIN cache
          /\ \A i \in 2..Len(recent) : recent[i] \in DOMAIN cache

(* C2: get(key) returns the value given by the most recent set(key, value, *)
(* timeout) when the key has not been deleted or evicted since and the     *)
(* time of the get is before the set's expireAt.                           *)
C2_GetReturnsLiveValue ==
    (last.op = "get" /\ written.set /\ written.key = last.key
        /\ last.at < written.expire) =>
       (last.exc = NoExc /\ last.ret = written.value)

(* C3: a get of a key whose expireAt has passed (a key set with timeout 0  *)
(* included) returns absent and leaves the store as it was, the expired    *)
(* entry still in the lookup map.                                          *)
C3_ExpiredGetIsMiss ==
    (last.op = "get" /\ written.set /\ written.key = last.key
        /\ last.at >= written.expire) =>
       /\ last.exc = NoExc
       /\ last.ret = None
       /\ last.key \in DOMAIN cache
       /\ Store = last.pre

(* C4: after any sequence of public calls, size is the number of keys of   *)
(* the lookup map and is at most maxsize.                                  *)
C4_SizeWithinMaxsize ==
    /\ size = Cardinality(DOMAIN cache)
    /\ size <= maxsize

(* C4, witness: calls of several kinds have been made on the store, a set  *)
(* and a set_many of MaxBatch keys among them; the dict is empty, as these *)
(* calls raised.                                                           *)
C4_Witness ==
    /\ phase = "any"
    /\ written.set
    /\ last.op = "set_many"
    /\ Len(last.keys) = MaxBatch
    /\ last.exc # NoExc
    /\ size = 0

(* C5: on a store of capacity N that started empty, after set and get      *)
(* calls that inserted N different keys, and no other calls, full is true. *)
C5_FullAfterNInsertions ==
    (phase \in {"set", "setget"} /\ Len(recent) >= maxsize) => full

(* C6: in every reachable state, full = true implies size = maxsize.  No   *)
(* reachable state has full = true, nor an entry a delete could remove.    *)
C6_FullMeansAtCapacity == full => size = maxsize

(* C7: a set that inserts a new key into a full store (N different keys    *)
(* have been set, by set and set_many only) returns True without raising;  *)
(* afterwards the least recently used key is out of the lookup map, the    *)
(* new key is in it, and size is still maxsize.  The same of set, add and  *)
(* set_many in terms of the store they find.                               *)
C7_InsertIntoFullStore ==
    /\ [][(/\ phase = "set"
           /\ Len(recent) = maxsize
           /\ recent' # recent
           /\ last'.op = "set"
           /\ last'.key \notin Range(recent))
          => /\ last'.exc = NoExc
             /\ last'.ret = True
             /\ last'.key \in DOMAIN cache'
             /\ recent[1] \notin DOMAIN cache'
             /\ size' = maxsize]_vars
    /\ [](/\ last.op \in {"set", "add"}
          /\ ~had
          /\ (last.pre.full \/ size0 = maxsize)
          => /\ last.exc = NoExc
             /\ last.ret = True
             /\ last.key \in DOMAIN cache
             /\ \E victim \in keys0 : victim \notin DOMAIN cache
             /\ size = maxsize)

(* C8: delete(key) of a present key unlinks the entry, takes it out of the *)
(* lookup map, lowers size by one and returns True; delete(key) of a       *)
(* missing key returns False without raising and leaves the store as it    *)
(* was.                                                                    *)
C8_Delete ==
    last.op = "delete" =>
       IF had
       THEN /\ last.exc = NoExc
            /\ last.ret = True
            /\ last.key \notin DOMAIN cache
            /\ size = size0 - 1
            /\ last.pre.cache[last.key] \notin DOMAIN heap
            /\ \A l \in DOMAIN heap :
                  /\ heap[l].prev # last.pre.cache[last.key]
                  /\ heap[l].next # last.pre.cache[last.key]
       ELSE /\ last.exc = NoExc
            /\ last.ret = False
            /\ Store = last.pre

C10_SizeChanges ==
    /\ last.op \in {"get", "get_many", "get_dict", "has"} => size <= size0
    /\ (last.op \in {"set", "add", "inc", "dec"} /\ had) => size <= size0
    /\ size > size0 =>
          /\ last.op \in {"set", "add", "set_many", "inc", "dec"}
          /\ ~last.pre.full
          /\ last.op # "set_many" => (~had /\ size = size0 + 1)
          /\ last.op = "set_many" =>
                size - size0 <= Cardinality(Range(last.keys) \ keys0)
    /\ size < size0 => last.op \in {"delete", "delete_many", "clear"}

(* C10, witness: a set of a key, and then a get of it, have acted on the   *)
(* store and left its size as it was.                                      *)
C10_Witness ==
    /\ last.op = "get"
    /\ last.exc = NoExc
    /\ written.set
    /\ written.key = last.key
    /\ size = size0

(* C11: inc(key, delta) returns c + delta, where c is the key's numeric    *)
(* value or 0 when the key is absent (or expired), stores the result under *)
(* the key with the default timeout, so that a get after it returns it;    *)
(* dec(key, delta) does so with -delta.  inc("x", 1) of a new key is 1.    *)
C11_IncReturnsSum ==
    (last.op \in {"inc", "dec"} /\ ~had) =>
       /\ last.exc = NoExc
       /\ \E delta \in Deltas :
             last.ret = PyInt(IF last.op = "inc" THEN 0 + delta ELSE 0 - delta)
       /\ last.key \in DOMAIN cache
       /\ heap[cache[last.key]].value = last.ret
       /\ heap[cache[last.key]].expire = last.at + default_timeout


(* C12: every public method (add, set, set_many, inc, dec, delete,         *)
(* delete_many, get, get_dict, get_many, has, clear) reads and writes the  *)
(* store only while it holds the store's lock, so the bodies of two        *)
(* methods never overlap, and the lock is free when no method is running.  *)
C12_BodiesHoldLock ==
    /\ \A t \in Threads : pc[t].at = "body" => lock = t
    /\ Cardinality({t \in Threads : pc[t].at = "body"}) <= 1
    /\ (\A t \in Threads : pc[t].at = "idle") => lock = NoThread


(* Whether the backend b holds the key, and the value it holds under it. *)
Holds(b, key) ==
    IF b.kind = "SafeSimpleCache" THEN key \in DOMAIN b.s.cache
    ELSE key \in DOMAIN b.d
Held(b, key) ==
    IF b.kind = "SafeSimpleCache" THEN b.s.heap[b.s.cache[key]].value
    ELSE b.d[key]

(* The backends that held the key when the last MultiCache call was made,  *)
(* and those that held a value other than None under it.                   *)
Holders(key) == {i \in DOMAIN mcall.pre : Holds(mcall.pre[i], key)}
Givers(key) == {i \in Holders(key) : Held(mcall.pre[i], key) # None}
First(S) == CHOOSE i \in S : \A j \in S : i <= j

(* C14, as claimed: MultiCache.get(key) returns the value held by the      *)
(* first backend, in list order, in which the key is present, and absent   *)
(* only if every backend misses; the backends after that first one are not *)
(* consulted.                                                              *)
C14_FirstPresent ==
    mcall.op = "get" =>
       /\ mcall.exc = NoExc
       /\ Holders(mcall.key) = {} =>
             (mcall.ret = None /\ mcall.asked = Len(mcall.pre))
       /\ Holders(mcall.key) # {} =>
             /\ mcall.ret = Held(mcall.pre[First(Holders(mcall.key))], mcall.key)
             /\ mcall.asked = First(Holders(mcall.key))

(* C14, amended: MultiCache.get(key) returns the value of the first        *)
(* backend, in list order, that holds a value other than None under the    *)
(* key, and None only if no backend does (the key is missing there, or     *)
(* stored as None); the backends after that first one are not consulted.   *)
C14_FirstNotNone ==
    mcall.op = "get" =>
       /\ mcall.exc = NoExc
       /\ backends = mcall.pre
       /\ Givers(mcall.key) = {} =>
             (mcall.ret = None /\ mcall.asked = Len(mcall.pre))
       /\ Givers(mcall.key) # {} =>
             /\ mcall.ret = Held(mcall.pre[First(Givers(mcall.key))], mcall.key)
             /\ mcall.asked = First(Givers(mcall.key))

(* C14, witness: a get whose first backend missed the key has returned the *)
(* value the second backend holds.                                         *)
C14_Witness ==
    /\ mcall.op = "get"
    /\ Len(mcall.pre) = 2
    /\ ~Holds(mcall.pre[1], mcall.key)
    /\ Holds(mcall.pre[2], mcall.key)
    /\ mcall.ret = Held(mcall.pre[2], mcall.key)
    /\ mcall.ret # None

(* C15: MultiCache.set(key, value) issues the write to every backend, also *)
(* to those after a backend whose write reported failure (returned False), *)
(* and returns True if and only if every backend's set succeeded; when a   *)
(* backend's set raises, set raises and reports no success.                *)
C15_SetWritesEveryBackend ==
    mcall.op = "set" =>
       /\ mcall.exc = NoExc =>
             /\ mcall.asked = Len(mcall.pre)
             /\ mcall.ret \in {True, False}
             /\ mcall.ret = True <=> \A i \in DOMAIN mcall.pre : mcall.oks[i]
             /\ \A i \in DOMAIN mcall.pre :
                   IF mcall.oks[i]
                   THEN /\ Holds(backends[i], mcall.key)
                        /\ Held(backends[i], mcall.key) = mcall.arg
                   ELSE backends[i] = mcall.pre[i]
       /\ mcall.exc # NoExc => mcall.ret # True
       /\ mcall.ret = True =>
             \A i \in DOMAIN backends :
                /\ Holds(backends[i], mcall.key)
                /\ Held(backends[i], mcall.key) = mcall.arg

(* C15, witness: the set of the first backend reported failure, the second *)
(* backend has been written all the same, and set returned False.          *)
C15_Witness ==
    /\ mcall.op = "set"
    /\ mcall.exc = NoExc
    /\ Len(mcall.pre) = 2
    /\ ~mcall.oks[1]
    /\ mcall.oks[2]
    /\ ~Holds(mcall.pre[2], mcall.key)
    /\ Holds(backends[2], mcall.key)
    /\ Held(backends[2], mcall.key) = mcall.arg
    /\ mcall.ret = False

(* The number a backend's inc or dec starts from: its value, 0 for a       *)
(* missing key or None.                                                    *)
Start(b, key) ==
    IF Holds(b, key) /\ Held(b, key) # None THEN Held(b, key).v ELSE 0

(* C16: MultiCache.inc(key, delta), with no other call running, applies    *)
(* inc to every backend and returns the maximum of the backends' results   *)
(* (dec: the minimum); on return every backend holds the returned value    *)
(* under the key.                                                          *)
C16_IncResyncs ==
    (mcall.op \in {"inc", "dec"} /\ mcall.pre # <<>>) =>
       /\ mcall.exc = NoExc
       /\ \E delta \in Deltas :
             LET results == {IF mcall.op = "inc"
                             THEN Start(mcall.pre[i], mcall.key) + delta
                             ELSE Start(mcall.pre[i], mcall.key) - delta :
                                i \in DOMAIN mcall.pre}
             IN /\ mcall.ret.v \in results
                /\ \A x \in results :
                      IF mcall.op = "inc" THEN x <= mcall.ret.v
                      ELSE mcall.ret.v <= x
       /\ \A i \in DOMAIN backends :
             /\ Holds(backends[i], mcall.key)
             /\ Held(backends[i], mcall.key) = mcall.ret

(* The value get_dict and get_many owe for a key: that of the first        *)
(* backend that holds the key, None when no backend holds it.              *)
Owed(key) ==
    IF Holders(key) = {} THEN None
    ELSE Held(mcall.pre[First(Holders(key))], key)

(* C17: MultiCache.get_dict of some keys returns a mapping whose keys are the    *)
(* requested keys, each with the value of the first backend that holds it, *)
(* or None when no backend holds it, also when every key is resolved       *)
(* before the last backend has been asked; get_many returns these         *)
(* values in the order of the keys.                                        *)
C17_GetDictAllKeys ==
    /\ mcall.op = "get_dict" =>
          /\ mcall.exc = NoExc
          /\ mcall.ret = PyDict([k \in Range(mcall.keys) |-> Owed(k)])
    /\ mcall.op = "get_many" =>
          /\ mcall.exc = NoExc
          /\ mcall.ret = PyList([i \in DOMAIN mcall.keys |-> Owed(mcall.keys[i])])

(* C18: MultiCache.delete(key) removes the key from every backend that     *)
(* holds it and returns True if and only if at least one backend held it;  *)
(* after it no backend holds the key.                                      *)
C18_DeleteFromAll ==
    mcall.op = "delete" =>
       /\ mcall.exc = NoExc
       /\ mcall.ret = PyBool(Holders(mcall.key) # {})
       /\ \A i \in DOMAIN backends : ~Holds(backends[i], mcall.key)

(* C19: MultiCache.has(key) returns True if at least one backend reports   *)
(* the key present and False if none does, for every list of backends,     *)
(* without raising.                                                        *)
C19_HasAny ==
    mcall.op = "has" =>
       /\ mcall.exc = NoExc
       /\ mcall.ret = PyBool(Holders(mcall.key) # {})


C20_HitsAndMisses ==
    /\ (rcall.op = "run" /\ rcall.seq /\ Quiet) =>
          /\ rcall.exc = NoExc
          /\ IF rcall.key \in DOMAIN rcall.pre.d
             THEN /\ rcall.ret = rcall.pre.d[rcall.key]
                  /\ fnc_calls = rcall.pre.calls
                  /\ hits = rcall.pre.hits + 1
                  /\ misses = rcall.pre.misses
             ELSE /\ fnc_calls = [rcall.pre.calls EXCEPT ![rcall.key] = @ + 1]
                  /\ rcall.key \in DOMAIN memo_cache.d
                  /\ memo_cache.d[rcall.key] = rcall.ret
                  /\ hits = rcall.pre.hits
                  /\ misses = rcall.pre.misses + 1
    /\ rcall.op = "hits" => (rcall.exc = NoExc /\ rcall.ret = PyInt(hits))
    /\ rcall.op = "misses" => (rcall.exc = NoExc /\ rcall.ret = PyInt(misses))


(* C21: MemoizeManager.clear sets hits and misses to zero and empties the  *)
(* backing store; the first call after a clear, for every key, invokes the *)
(* function again and counts as a miss.                                    *)
C21_ClearResets ==
    /\ (rcall.op = "clear" /\ Quiet) =>
          /\ hits = 0
          /\ misses = 0
          /\ memo_cache.d = <<>>
          /\ DOMAIN cache = {}
    /\ (rcall.op = "run" /\ rcall.seq /\ Quiet /\ rcall.key \in rcall.pre.uncalled) =>
          /\ rcall.exc = NoExc
          /\ fnc_calls = [rcall.pre.calls EXCEPT ![rcall.key] = @ + 1]
          /\ rcall.ret = PyInt(fnc_calls[rcall.key])
          /\ misses = rcall.pre.misses + 1
          /\ hits = rcall.pre.hits

(* C22: MemoizeManager.pop removes only the entry of its argument key and  *)
(* returns the cached value: that key is no longer stored, so the next     *)
(* call with it invokes the function again, and every other cached key     *)
(* keeps its cached result.                                                *)
C22_PopForgetsOneKey ==
    (rcall.op = "pop" /\ rcall.seq) =>
       /\ rcall.exc = NoExc
       /\ rcall.key \in DOMAIN rcall.pre.d => rcall.ret = rcall.pre.d[rcall.key]
       /\ rcall.key \notin DOMAIN memo_cache.d
       /\ \A k \in DOMAIN rcall.pre.d \ {rcall.key} :
             k \in DOMAIN memo_cache.d /\ memo_cache.d[k] = rcall.pre.d[k]


(* No thread is in a call of the Event. *)
NoneCalling == \A t \in Threads : ~Calling(t)

(* C23: a call of an Event calls every handler of the list exactly once    *)
(* with the call's arguments, in ascending order of list index, and the    *)
(* whole list for one call before the list for the next: the calls of      *)
(* handlers come in runs 1..Len(event) with the same arguments, and once   *)
(* successive calls, none made while another thread was in a call, have    *)
(* returned, there is one whole run for each call made.                    *)
Successive == \A k \in DOMAIN fired : fired[k].apart

C23_HandlersInOrder ==
    /\ \A p \in DOMAIN trace :
          /\ trace[p].i = ((p - 1) % Len(event)) + 1
          /\ trace[p].x = trace[p - (trace[p].i - 1)].x
    /\ (NoneCalling /\ Successive) => Len(trace) = Len(event) * Len(fired)

(* C23, witness: two calls of an Event of at least two handlers have been  *)
(* made and dispatched, and no call is in progress.                        *)
C23_Witness ==
    /\ NoneCalling
    /\ Successive
    /\ Len(event) >= 2
    /\ Len(fired) >= 2
    /\ Len(trace) = Len(event) * Len(fired)

(* C24: a call of the Event from inside one of its handlers is not         *)
(* dispatched nested, it is queued: an inner call never takes the lock,    *)
(* and the queued events are dispatched in the order they were queued.     *)
C24_QueuedNotNested ==
    /\ \A t \in Threads : \A k \in 2..Len(stack[t]) :
          stack[t][k].at \in {"test", "acquire"}
    /\ \A p \in DOMAIN trace :
          /\ ((p - 1) \div Len(event)) + 1 \in DOMAIN fired
          /\ trace[p].x = fired[((p - 1) \div Len(event)) + 1].x

(* C24, witness: the handlers of test_thread_safety were called with 1:    *)
(* the first queued 2 from inside the dispatch, and the calls of the two   *)
(* appending handlers came as 1, 1, 2, 2.                                  *)
C24_Witness ==
    /\ NoneCalling
    /\ event = <<"refire", "append", "append">>
    /\ fired = <<[x |-> 1, nested |-> FALSE, apart |-> TRUE],
                 [x |-> 2, nested |-> TRUE, apart |-> TRUE]>>
    /\ trace = <<[x |-> 1, i |-> 1], [x |-> 1, i |-> 2], [x |-> 1, i |-> 3],
                 [x |-> 2, i |-> 1], [x |-> 2, i |-> 2], [x |-> 2, i |-> 3]>>


(* The keyword arguments as a dict. *)
AsKwargs(l) == {l[i] : i \in DOMAIN l}

Entries == {cache[k] : k \in DOMAIN cache}
RECURSIVE Following(_, _)
Following(l, seen) ==
    IF l \in seen \/ l \notin DOMAIN heap THEN seen
    ELSE Following(heap[l].next, seen \cup {l})

(* C27: after any sequence of public calls, every key of the lookup map    *)
(* maps to one entry whose key field is that key, and the entries form one *)
(* cycle under next, with prev its inverse: following next from any entry  *)
(* meets every entry, and no list outside of the map is still linked.      *)
C27_SingleCycle ==
    /\ \A k \in DOMAIN cache :
          /\ cache[k] \in DOMAIN heap
          /\ heap[cache[k]].key = k
    /\ \A j, k \in DOMAIN cache : cache[j] = cache[k] => j = k
    /\ \A l \in Entries :
          /\ heap[l].next \in Entries
          /\ heap[l].prev \in Entries
          /\ heap[heap[l].next].prev = l
          /\ heap[heap[l].prev].next = l
          /\ Following(l, {}) = Entries
    /\ DOMAIN heap = Entries

(* The keys of the store from the least to the most recently set. *)
Recency == SelectSeq(recent, LAMBDA k : k \in DOMAIN cache)

(* C28: in a store that is not empty, _lru_key names a key of the lookup   *)
(* map, whose entry is the least recently used one, and the entry before   *)
(* it in the cycle is the most recently used one; so it is after the first *)
(* insertion into an empty store, also one emptied by delete or clear.     *)
C28_BoundaryIsLRU ==
    /\ DOMAIN cache # {} =>
          /\ lru_key \in DOMAIN cache
          /\ cache[lru_key] \in DOMAIN heap
    /\ (phase = "set" /\ DOMAIN cache # {}) =>
          /\ Recency # <<>>
          /\ lru_key = Recency[1]
          /\ heap[heap[cache[lru_key]].prev].key = Recency[Len(Recency)]
    /\ (last.op \in {"set", "add"} /\ size0 = 0) =>
          /\ last.exc = NoExc
          /\ DOMAIN cache = {last.key}
          /\ lru_key = last.key

(* C29: a set of a key that the caller's latest set wrote, and that no     *)
(* call has removed since, replaces the entry's value and expire, makes it *)
(* the most recently used entry (the one before the boundary in the        *)
(* cycle) and leaves the set of keys as it was; a get that returns a       *)
(* stored value makes its entry the most recently used one likewise.       *)
C29_UpdateInPlace ==
    /\ [][(/\ written.set
           /\ last' # last
           /\ last'.op = "set"
           /\ last'.key = written.key)
          => /\ last'.exc = NoExc
             /\ DOMAIN cache' = DOMAIN cache
             /\ last'.key \in DOMAIN cache'
             /\ heap'[cache'[last'.key]].value = written'.value
             /\ heap'[cache'[last'.key]].expire = written'.expire
             /\ heap'[cache'[lru_key']].prev = cache'[last'.key]]_vars
    /\ [](/\ last.op = "get"
          /\ last.exc = NoExc
          /\ last.ret # None
          => /\ DOMAIN cache = keys0
             /\ heap[cache[lru_key]].prev = cache[last.key])


(* C30: get_many, get_dict, set_many and delete_many take the lock once    *)
(* for the whole batch: from before the first key to after the last one    *)
(* the thread holds the lock, and no step of another thread changes the    *)
(* store between two of the per-key steps.                                 *)
C30_BatchUnderOneLock ==
    /\ [](\A t \in Threads : pc[t].at = "batch" => lock = t)
    /\ [][\A t \in Threads :
             (pc[t].at = "batch" /\ pc'[t] = pc[t]) => Store' = Store]_all_vars

(* C30, witness: a thread is between the two keys of a get_many, holding   *)
(* the lock, after a set_many of another thread.                           *)
C30_Witness ==
    \E t, u \in Threads :
       /\ t # u
       /\ pc[t].op = "get_many"
       /\ pc[t].at = "batch"
       /\ Len(pc[t].batch.keys) = 2
       /\ pc[t].batch.done = 1
       /\ lock = t
       /\ pc[u].op = "set_many"
       /\ pc[u].at = "idle"


(* The characters of a text that stand inside the content of a block tag, *)
(* and the characters of a text that are not blanks.                      *)
Content(s) == SelectSeq(s, LAMBDA x : x.lit)
Ink(s) == Chars(SelectSeq(s, LAMBDA x : ~IsSpace(x)))

(* C26: HTMLCompressContext never fails on a template, and once the       *)
(* stream has ended, however its data was split into tokens, what it has  *)
(* yielded holds the content of every script, style, pre or textarea tag  *)
(* character for character, closed or not, and differs from the template  *)
(* in blanks only.                                                         *)
C26_BlockContentVerbatim ==
    /\ failed = NoExc
    /\ (source # <<>> /\ stream = <<>>) =>
        /\ Content(emitted) = Content(source)
        /\ Ink(emitted \o <<Ch("eof")>>) = Ink(source)


(* C31: no call of the Event pops from an empty queue: a thread that has   *)
(* taken the lock and is about to execute popleft finds an event in the    *)
(* queue, and no call has raised IndexError, whatever the interleaving of  *)
(* the test of the queue, the taking of the lock and the pop.              *)
C31_NeverPopsEmpty ==
    /\ \A t \in Threads :
          (Calling(t) /\ Top(t).at = "popleft") => queue # <<>>
    /\ raised = <<>>

(* C32: once no call of the Event is in progress, the queue is empty and   *)
(* every event that was queued has been dispatched to the whole list of    *)
(* handlers exactly once.                                                  *)
C32_AllDispatched ==
    NoneCalling =>
        /\ queue = <<>>
        /\ \A k \in DOMAIN fired : \A i \in DOMAIN event :
              trace[(k - 1) * Len(event) + i] = [x |-> fired[k].x, i |-> i]
        /\ Len(trace) = Len(event) * Len(fired)


(* What of self.pending the loop of feed has not looked at yet. *)
Unscanned(c) == Len(c.pending) - Len(c.start)

(* C33: every iteration of the scan loop of feed, in every state of every *)
(* context, either ends the loop or leaves less of pending to look at     *)
(* than it found, and none raises: so feed returns.                       *)
C33_ScanAdvances ==
    [][(context.at = "scan") =>
          /\ failed' = NoExc
          /\ context'.at = "feed" \/ Unscanned(context') < Unscanned(context)
      ]_all_vars

=============================================================================
